---- MODULE Spec2Model ----
(***************************************************************************)
(* A model of the payment provider adapters (Stripe, Airwallex, Alipay,    *)
(* WeChat, PayPal, GC, Balance, Dummy): the Pay and Notify operations of   *)
(* every adapter, run against one vendor-side order record.                *)
(*                                                                         *)
(* Representation.  User strings (product names, payment names, ids) are   *)
(* sequences of one-character strings, so that the attachment codec really *)
(* joins and splits.  Vendor vocabulary (status words, issue codes) and    *)
(* error labels are atoms.  A message built by fmt.Sprintf is the sequence *)
(* of its fragments.  A float64 amount is an integer number of thousandths *)
(* of the major unit (99.99 is 99990); a minor-unit integer is a number of *)
(* hundredths; an amount string is the number of thousandths it spells.    *)
(*                                                                         *)
(* Four further specifications examine parts of the library on their own:  *)
(* SpecCodec the amount and attachment codecs, SpecLife construction and   *)
(* the GetInvoice / GetResponseError methods, SpecToken concurrent callers *)
(* of AirwallexClient, SpecAlipay concurrent Pay calls on one Alipay       *)
(* provider.  Each keeps the variables of the others at their idle value.  *)
(***************************************************************************)
EXTENDS Integers, Sequences, FiniteSets, TLC

VARIABLES
    pp,          \* the adapter under examination (one PaymentProvider instance)
    order,       \* the vendor-side record of the order
    tokenCache,  \* AirwallexClient.tokenCache
    last,        \* the most recent Pay or Notify call: inputs and outcome
    prev,        \* the Notify call right before `last`, when nothing happened in between
    resolved,    \* some Notify for the order has returned a result without error
    decided,     \* ... and some such result had a status other than Canceled
    codec,       \* SpecCodec: the last application of a codec function
    life,        \* SpecLife: the constructed provider and its last method call
    conc,        \* SpecToken: the AirwallexClient shared by concurrent callers
    ali          \* SpecAlipay: the alipay client shared by concurrent Pay calls

mainVars == <<pp, order, tokenCache, last, prev, resolved, decided>>
sideVars == <<codec, life, conc, ali>>
vars == <<pp, order, tokenCache, last, prev, resolved, decided, codec, life, conc, ali>>

\* the idle value of the variables a specification does not use
Idle == [op |-> "idle"]

Providers == {"Stripe", "Airwallex", "Alipay", "Wechat", "Paypal", "Gc", "Balance", "Dummy"}

(***************************************************************************)
(* Normalized payment states.                                              *)
(***************************************************************************)
PaymentStatePaid     == "Paid"
PaymentStateCreated  == "Created"
PaymentStateCanceled == "Canceled"
PaymentStateTimeout  == "Timeout"
PaymentStateError    == "Error"

PaymentEnvWechatBrowser == "WechatBrowser"

(***************************************************************************)
(* Strings and the two codecs.                                             *)
(***************************************************************************)
Sep == "|"

RECURSIVE Join(_, _)
\* strings.Join(tokens, sep)
Join(tokens, sep) ==
    IF Len(tokens) = 0 THEN <<>>
    ELSE IF Len(tokens) = 1 THEN tokens[1]
    ELSE tokens[1] \o <<sep>> \o Join(Tail(tokens), sep)

RECURSIVE Split(_, _)
\* strings.Split(s, sep) for a one-character separator: always at least one field
Split(s, sep) ==
    IF \A i \in 1..Len(s) : s[i] # sep THEN <<s>>
    ELSE LET k == CHOOSE i \in 1..Len(s) : s[i] = sep /\ \A j \in 1..(i - 1) : s[j] # sep
         IN  <<SubSeq(s, 1, k - 1)>> \o Split(SubSeq(s, k + 1, Len(s)), sep)

\* a variant of the join with "," as its separator; parsing no longer undoes it
joinAttachString_Comma(tokens) == Join(tokens, ",")

joinAttachString(tokens) == Join(tokens, Sep)

\* a variant of the parse that hands back the first field along with the
\* error; a tolerant Notify then reports a name for an unparsable attachment
parseAttachString_KeepsFirstField(s) ==
    LET tokens == Split(s, Sep)
    IN  IF Len(tokens) # 3
        THEN [a |-> tokens[1], b |-> <<>>, c |-> <<>>, err |-> TRUE]
        ELSE [a |-> tokens[1], b |-> tokens[2], c |-> tokens[3], err |-> FALSE]

parseAttachString(s) ==
    LET tokens == Split(s, Sep)
    IN  IF Len(tokens) # 3
        THEN [a |-> <<>>, b |-> <<>>, c |-> <<>>, err |-> TRUE]
        ELSE [a |-> tokens[1], b |-> tokens[2], c |-> tokens[3], err |-> FALSE]

\* a variant of the conversion that divides by 10 instead of 100; the amount
\* round trip does not survive it
priceInt64ToFloat64_Tenths(price) == price * 100

\* float64(price) / 100: hundredths to thousandths of the major unit
priceInt64ToFloat64(price) == price * 10

\* int64(math.Round(price * 100)): round half away from zero
priceFloat64ToInt64(price) ==
    IF price >= 0 THEN (price + 5) \div 10 ELSE -((-price + 5) \div 10)

\* strconv.FormatFloat(price, 'f', 2, 64): the two-decimal string nearest to price
priceFloat64ToString(price) == priceFloat64ToInt64(price) * 10

\* strconv.ParseFloat of a decimal amount string: the number the string spells
\* (amount strings, like float64 amounts, are counted in thousandths)
priceStringToFloat64(price) == price

(***************************************************************************)
(* PayReq, PayResp, NotifyResult.                                          *)
(***************************************************************************)
ReqBase ==
    [ProviderName |-> <<"v">>, ProductName |-> <<"p">>, ProductDisplayName |-> <<"d">>,
     PayerId |-> <<"o", "/", "u">>, PaymentName |-> <<"n">>,
     Price |-> 99990, Currency |-> "USD",
     ReturnUrl |-> "return-url", NotifyUrl |-> "notify-url", PaymentEnv |-> ""]

\* the requests a caller passes to Pay
Reqs ==
    { ReqBase,
      [ReqBase EXCEPT !.ProductName = <<"p", "|">>],
      [ReqBase EXCEPT !.PaymentEnv = PaymentEnvWechatBrowser],
      [ReqBase EXCEPT !.PaymentEnv = PaymentEnvWechatBrowser, !.PayerId = <<>>],
      [ReqBase EXCEPT !.PayerId = <<"u">>] }

\* the zero value of PayResp (also standing for a nil *PayResp)
NoResp == [PayUrl |-> "", OrderId |-> <<>>, AttachInfo |-> {}]

\* the zero value of NotifyResult (also standing for a nil *NotifyResult)
ZeroResult ==
    [PaymentName |-> <<>>, PaymentStatus |-> "", NotifyMessage |-> <<>>,
     ProductName |-> <<>>, ProductDisplayName |-> <<>>, ProviderName |-> <<>>,
     Price |-> 0, Currency |-> "", OrderId |-> <<>>]

StatusOnly(status) == [ZeroResult EXCEPT !.PaymentStatus = status]

StatusMessage(status, msg) ==
    [ZeroResult EXCEPT !.PaymentStatus = status, !.NotifyMessage = msg]

(***************************************************************************)
(* The vendor side: one order record, and how a vendor request can fail.   *)
(***************************************************************************)
NoOrder ==
    [issued |-> FALSE, exists |-> FALSE, id |-> <<>>, ref |-> <<>>,
     status |-> "", payStatus |-> "", attach |-> <<>>, hasAttach |-> FALSE,
     amount |-> 0, currency |-> ""]

\* the highest position, in the sequence of vendor requests of one call, at
\* which the environment may make a request fail
MaxFail == 3

\* "transport": the request returns no answer (the SDK or http client gives an error)
\* "rejected":  the vendor answers with an error envelope instead of the payload
\* "malformed": the vendor answers with a payload or envelope one field of which has an
\*              unexpected form or is missing
Modes == {"transport", "rejected", "malformed"}

NoFail == [failAt |-> 0, mode |-> "transport"]

Nets == {NoFail} \cup [failAt : 1..MaxFail, mode : Modes]

\* the vendor-assigned order identifiers
StripeSessionId == <<"c", "s">>
PaypalOrderId   == <<"P", "P">>

\* AirwallexClient.tokenCache: nil, or a token with its parsed expiry compared to now
NoToken == [set |-> FALSE, Token |-> "", expired |-> TRUE]

(***************************************************************************)
(* Outcomes of a call.  ret is "ok" (result, nil error), "err" (nil        *)
(* result, error) or "panic" (the call aborts the caller).                 *)
(***************************************************************************)
NOut(ret, res, err, reqs, ord, tok) ==
    [ret |-> ret, res |-> res, resp |-> NoResp, err |-> err, reqs |-> reqs,
     order |-> ord, token |-> tok]

NOk(res, reqs, ord, tok)  == NOut("ok", res, "", reqs, ord, tok)
NErr(err, reqs, ord, tok) == NOut("err", ZeroResult, err, reqs, ord, tok)
NPanic(reqs, ord, tok)    == NOut("panic", ZeroResult, "", reqs, ord, tok)

POut(ret, resp, err, reqs, ord, tok) ==
    [ret |-> ret, res |-> ZeroResult, resp |-> resp, err |-> err, reqs |-> reqs,
     order |-> ord, token |-> tok]

POk(resp, reqs, ord, tok) == POut("ok", resp, "", reqs, ord, tok)
PErr(err, reqs, ord, tok) == POut("err", NoResp, err, reqs, ord, tok)
PPanic(reqs, ord, tok)    == POut("panic", NoResp, "", reqs, ord, tok)

\* the vendor has a record under this identifier
Found(ord, key) == ord.exists /\ key # <<>>

NoAttach == [a |-> <<>>, b |-> <<>>, c |-> <<>>, err |-> FALSE]

(***************************************************************************)
(* Stripe: Notify.                                                         *)
(***************************************************************************)
\* switch sCheckout.Status
\* a variant of the session switch whose "open" case falls through to the
\* payment-status switch; the outer-axis-first property does not survive it
StripeCheckoutStatus_OpenFallsThrough(status) ==
    CASE status = "open"     -> "proceed"
      [] status = "complete" -> "proceed"
      [] status = "expired"  -> PaymentStateTimeout
      [] OTHER               -> PaymentStateError

StripeCheckoutStatus(status) ==
    CASE status = "open"     -> PaymentStateCreated
      [] status = "complete" -> "proceed"
      [] status = "expired"  -> PaymentStateTimeout
      [] OTHER               -> PaymentStateError

\* a variant of the payment status switch that takes only "no_payment_required"
\* as settled; a complete and paid session is then not reported as Paid
StripePaymentStatus_PaidIsUnknown(status) ==
    CASE status = "no_payment_required" -> "proceed"
      [] status = "unpaid" -> PaymentStateCreated
      [] OTHER             -> PaymentStateError

\* switch sCheckout.PaymentStatus
StripePaymentStatus(status) ==
    CASE status = "paid"   -> "proceed"
      [] status = "unpaid" -> PaymentStateCreated
      [] OTHER             -> PaymentStateError

StripeNotify(body, orderId, ord, net) ==
    LET r1     == <<"checkout.session.get">>
        r2     == r1 \o <<"paymentintent.get">>
        outer  == StripeCheckoutStatus(ord.status)
        inner  == StripePaymentStatus(ord.payStatus)
        attach == IF ord.hasAttach THEN parseAttachString(ord.attach) ELSE NoAttach
    IN  IF net.failAt = 1 \/ ~(Found(ord, orderId) /\ ord.id = orderId)
        THEN NErr("stripe: checkout session get", r1, ord, NoToken)
        ELSE IF outer = PaymentStateError
        THEN NOk(StatusMessage(PaymentStateError,
                     <<"unexpected stripe checkout status: ", ord.status>>), r1, ord, NoToken)
        ELSE IF outer # "proceed"
        THEN NOk(StatusOnly(outer), r1, ord, NoToken)
        ELSE IF inner = PaymentStateError
        THEN NOk(StatusMessage(PaymentStateError,
                     <<"unexpected stripe checkout payment status: ", ord.payStatus>>),
                 r1, ord, NoToken)
        ELSE IF inner # "proceed"
        THEN NOk(StatusOnly(inner), r1, ord, NoToken)
        ELSE IF net.failAt = 2
        THEN NErr("stripe: payment intent get", r2, ord, NoToken)
        ELSE NOk([PaymentName |-> ord.ref, PaymentStatus |-> PaymentStatePaid,
                  NotifyMessage |-> <<>>,
                  ProductName |-> attach.a, ProductDisplayName |-> attach.b,
                  ProviderName |-> attach.c,
                  Price |-> priceInt64ToFloat64(ord.amount), Currency |-> ord.currency,
                  OrderId |-> orderId], r2, ord, NoToken)

(***************************************************************************)
(* Airwallex: the client (token, authenticated request, intent query) and  *)
(* Notify.                                                                 *)
(***************************************************************************)
\* GetToken, with the login request at position `at` of the call's requests
GetToken(tok, net, at) ==
    IF tok.set /\ ~tok.expired
    THEN [ok |-> TRUE, issued |-> FALSE, cache |-> tok, err |-> ""]
    ELSE IF net.failAt = at /\ net.mode = "transport"
    THEN [ok |-> FALSE, issued |-> TRUE, cache |-> tok, err |-> "airwallex: login"]
    ELSE IF net.failAt = at /\ net.mode = "rejected"
    THEN [ok |-> FALSE, issued |-> TRUE, cache |-> tok, err |-> "invalid token response"]
    ELSE \* a malformed expires_at parses to the zero time: the error of time.Parse is dropped
         [ok |-> TRUE, issued |-> TRUE, err |-> "",
          cache |-> [set |-> TRUE, Token |-> "token",
                     expired |-> (net.failAt = at /\ net.mode = "malformed")]]

\* authRequest: token, then the request itself; the HTTP status is not looked at,
\* so an error envelope comes back as a decoded map like any payload
authRequest(name, tok, net) ==
    LET g    == GetToken(tok, net, 1)
        pre  == IF g.issued THEN <<"authentication.login">> ELSE <<>>
        pos  == Len(pre) + 1
    IN  IF ~g.ok
        THEN [ret |-> "err", answer |-> "", reqs |-> pre, cache |-> g.cache, err |-> g.err]
        ELSE IF net.failAt = pos /\ net.mode = "transport"
        THEN [ret |-> "err", answer |-> "", reqs |-> pre \o <<name>>, cache |-> g.cache,
              err |-> "airwallex: request"]
        ELSE [ret |-> "ok", reqs |-> pre \o <<name>>, cache |-> g.cache, err |-> "",
              answer |-> IF net.failAt = pos THEN net.mode ELSE "payload"]

\* GetIntentByOrderId: ret "ok" carries the intent info
GetIntentByOrderId(orderId, ord, net, tok) ==
    LET a == authRequest("payment_intents.list", tok, net)
    IN  IF a.ret = "err"
        THEN [ret |-> "err", err |-> "failed to get payment intent", intent |-> NoOrder,
              reqs |-> a.reqs, cache |-> a.cache]
        ELSE IF a.answer = "rejected"
        THEN \* intentRes["items"] is absent: the type assertion panics
             [ret |-> "panic", err |-> "", intent |-> NoOrder, reqs |-> a.reqs,
              cache |-> a.cache]
        ELSE IF ~(Found(ord, orderId) /\ ord.ref = orderId)
        THEN [ret |-> "err", err |-> "no payment intent found for order id",
              intent |-> NoOrder, reqs |-> a.reqs, cache |-> a.cache]
        ELSE \* an item whose status has an unexpected JSON type: json.Unmarshal's
             \* error is dropped and Status keeps its zero value
             [ret |-> "ok", err |-> "", reqs |-> a.reqs, cache |-> a.cache,
              intent |-> IF a.answer = "malformed" THEN [ord EXCEPT !.status = ""] ELSE ord]

\* switch intent.Status
\* a variant of the intent switch that treats REQUIRES_CAPTURE like SUCCEEDED;
\* the paid-only-when-settled property does not survive it
AirwallexIntentStatus_CaptureIsSuccess(status) ==
    CASE status \in {"PENDING", "REQUIRES_PAYMENT_METHOD", "REQUIRES_CUSTOMER_ACTION"}
                              -> PaymentStateCreated
      [] status = "CANCELLED" -> PaymentStateCanceled
      [] status = "EXPIRED"   -> PaymentStateTimeout
      [] status \in {"SUCCEEDED", "REQUIRES_CAPTURE"} -> "proceed"
      [] OTHER                -> PaymentStateError

AirwallexIntentStatus(status) ==
    CASE status \in {"PENDING", "REQUIRES_PAYMENT_METHOD", "REQUIRES_CUSTOMER_ACTION",
                     "REQUIRES_CAPTURE"} -> PaymentStateCreated
      [] status = "CANCELLED" -> PaymentStateCanceled
      [] status = "EXPIRED"   -> PaymentStateTimeout
      [] status = "SUCCEEDED" -> "proceed"
      [] OTHER                -> PaymentStateError

\* if intent.PaymentStatus != "" { switch intent.PaymentStatus }
AirwallexAttemptStatus(status) ==
    CASE status = "" -> "proceed"
      [] status \in {"CANCELLED", "EXPIRED", "RECEIVED", "AUTHENTICATION_REDIRECTED",
                     "AUTHORIZED", "CAPTURE_REQUESTED"} -> PaymentStateCreated
      [] status \in {"PAID", "SETTLED"} -> "proceed"
      [] OTHER -> PaymentStateError

AirwallexNotify(body, orderId, ord, net, tok) ==
    LET q      == GetIntentByOrderId(orderId, ord, net, tok)
        intent == q.intent
        outer  == AirwallexIntentStatus(intent.status)
        inner  == AirwallexAttemptStatus(intent.payStatus)
        attach == IF intent.hasAttach THEN parseAttachString(intent.attach) ELSE NoAttach
    IN  IF q.ret = "err" THEN NErr(q.err, q.reqs, ord, q.cache)
        ELSE IF q.ret = "panic" THEN NPanic(q.reqs, ord, q.cache)
        ELSE IF outer = PaymentStateError
        THEN NOk(StatusMessage(PaymentStateError,
                     <<"unexpected airwallex checkout status: ", intent.status>>),
                 q.reqs, ord, q.cache)
        ELSE IF outer # "proceed"
        THEN NOk(StatusOnly(outer), q.reqs, ord, q.cache)
        ELSE IF inner = PaymentStateError
        THEN NOk(StatusMessage(PaymentStateError,
                     <<"unexpected airwallex checkout payment status: ", intent.payStatus>>),
                 q.reqs, ord, q.cache)
        ELSE IF inner # "proceed"
        THEN NOk(StatusOnly(inner), q.reqs, ord, q.cache)
        ELSE NOk([PaymentName |-> intent.ref, PaymentStatus |-> PaymentStatePaid,
                  NotifyMessage |-> <<>>,
                  ProductName |-> attach.a, ProductDisplayName |-> attach.b,
                  ProviderName |-> attach.c,
                  Price |-> priceStringToFloat64(intent.amount), Currency |-> intent.currency,
                  OrderId |-> intent.ref], q.reqs, ord, q.cache)

(***************************************************************************)
(* Alipay: Notify.                                                         *)
(***************************************************************************)
\* the error TradeQuery returns: its text is JSON with a sub-code when the
\* gateway answered, and is not JSON when the request itself failed
AlipayQueryError(ord, orderId, net) ==
    IF net.failAt = 1 /\ net.mode # "rejected"
    THEN [failed |-> TRUE, json |-> FALSE, SubCode |-> ""]
    ELSE IF net.failAt = 1
    THEN [failed |-> TRUE, json |-> TRUE, SubCode |-> "ACQ.SYSTEM_ERROR"]
    ELSE IF ~(Found(ord, orderId) /\ ord.ref = orderId)
    THEN [failed |-> TRUE, json |-> TRUE, SubCode |-> "ACQ.TRADE_NOT_EXIST"]
    ELSE [failed |-> FALSE, json |-> FALSE, SubCode |-> ""]

\* switch aliRsp.Response.TradeStatus
AlipayTradeStatus(status) ==
    CASE status = "WAIT_BUYER_PAY" -> PaymentStateCreated
      [] status = "TRADE_CLOSED"   -> PaymentStateTimeout
      [] status = "TRADE_SUCCESS"  -> "proceed"
      [] OTHER                     -> PaymentStateError

AlipayNotify(body, orderId, ord, net) ==
    LET r1     == <<"alipay.trade.query">>
        e      == AlipayQueryError(ord, orderId, net)
        st     == AlipayTradeStatus(ord.status)
        attach == parseAttachString(ord.attach)
    IN  IF e.failed
        THEN IF ~e.json THEN NErr("alipay: trade query", r1, ord, NoToken)
             ELSE IF e.SubCode = "ACQ.TRADE_NOT_EXIST"
             THEN NOk(StatusOnly(PaymentStateCanceled), r1, ord, NoToken)
             ELSE NErr(e.SubCode, r1, ord, NoToken)
        ELSE IF st = PaymentStateError
        THEN NOk(StatusMessage(PaymentStateError,
                     <<"unexpected alipay trade state: ", ord.status>>), r1, ord, NoToken)
        ELSE IF st # "proceed"
        THEN NOk(StatusOnly(st), r1, ord, NoToken)
        ELSE \* productDisplayName, productName, providerName, _ := parseAttachString(subject)
             NOk([PaymentName |-> orderId, PaymentStatus |-> PaymentStatePaid,
                  NotifyMessage |-> <<>>,
                  ProductName |-> attach.b, ProductDisplayName |-> attach.a,
                  ProviderName |-> attach.c,
                  Price |-> priceStringToFloat64(ord.amount), Currency |-> "",
                  OrderId |-> orderId], r1, ord, NoToken)

(***************************************************************************)
(* WeChat: Notify.                                                         *)
(***************************************************************************)
\* switch queryRsp.Response.TradeState
WechatTradeState(status) ==
    CASE status = "SUCCESS" -> "proceed"
      [] status = "CLOSED"  -> PaymentStateCanceled
      [] status \in {"NOTPAY", "USERPAYING"} -> PaymentStateCreated
      [] OTHER -> PaymentStateError

WechatNotify(body, orderId, ord, net) ==
    LET r1     == <<"wechat.transaction.query">>
        st     == WechatTradeState(ord.status)
        attach == parseAttachString(ord.attach)
    IN  IF net.failAt = 1 /\ net.mode # "rejected"
        THEN NErr("wechat: query order", r1, ord, NoToken)
        ELSE IF net.failAt = 1
        THEN NErr("SYSTEM_ERROR", r1, ord, NoToken)
        ELSE IF ~(Found(ord, orderId) /\ ord.ref = orderId)
        THEN NErr("ORDER_NOT_EXIST", r1, ord, NoToken)
        ELSE IF st = PaymentStateError
        THEN NOk(StatusMessage(PaymentStateError,
                     <<"unexpected wechat trade state: ", ord.status>>), r1, ord, NoToken)
        ELSE IF st # "proceed"
        THEN NOk(StatusOnly(st), r1, ord, NoToken)
        ELSE NOk([PaymentName |-> ord.ref, PaymentStatus |-> PaymentStatePaid,
                  NotifyMessage |-> <<>>,
                  ProductName |-> attach.b, ProductDisplayName |-> attach.a,
                  ProviderName |-> attach.c,
                  Price |-> priceInt64ToFloat64(ord.amount), Currency |-> "",
                  OrderId |-> orderId], r1, ord, NoToken)

(***************************************************************************)
(* PayPal: Notify.  The capture is a request that changes the order.       *)
(***************************************************************************)
\* what the gateway answers to OrderCapture: the issue of the first error
\* detail ("" when the capture succeeded) and the order after the request
OrderCapture(ord, orderId, net) ==
    IF net.failAt = 1 /\ net.mode = "malformed"
    THEN \* an error envelope whose details array is empty
         [issue |-> "NO_DETAILS", order |-> ord]
    ELSE IF net.failAt = 1
    THEN [issue |-> "INTERNAL_SERVER_ERROR", order |-> ord]
    ELSE IF ~(Found(ord, orderId) /\ ord.id = orderId)
    THEN [issue |-> "INVALID_RESOURCE_ID", order |-> ord]
    ELSE CASE ord.status = "APPROVED"
                -> [issue |-> "", order |-> [ord EXCEPT !.status = "COMPLETED"]]
           [] ord.status \in {"CREATED", "SAVED", "PAYER_ACTION_REQUIRED"}
                -> [issue |-> "ORDER_NOT_APPROVED", order |-> ord]
           [] ord.status = "VOIDED"
                -> [issue |-> "ORDER_EXPIRED", order |-> ord]
           [] OTHER
                -> [issue |-> "ORDER_ALREADY_CAPTURED", order |-> ord]

\* switch errDetail.Issue, after OrderCapture
\* a variant of the capture switch without the ORDER_ALREADY_CAPTURED case;
\* a repeated Notify is no longer idempotent under it
PaypalCaptureIssue_NoAlreadyCaptured(issue) ==
    CASE issue = "" -> "proceed"
      [] issue = "ORDER_NOT_APPROVED" -> PaymentStateCanceled
      [] OTHER -> "error"

\* a variant of the capture switch in which ORDER_NOT_APPROVED goes on to the
\* order detail; a Notify before approval then decides, and a later one captures
PaypalCaptureIssue_NotApprovedGoesOn(issue) ==
    CASE issue = "" -> "proceed"
      [] issue = "ORDER_ALREADY_CAPTURED" -> "proceed"
      [] issue = "ORDER_NOT_APPROVED" -> "proceed"
      [] OTHER -> "error"

PaypalCaptureIssue(issue) ==
    CASE issue = "" -> "proceed"
      [] issue = "ORDER_ALREADY_CAPTURED" -> "proceed"
      [] issue = "ORDER_NOT_APPROVED" -> PaymentStateCanceled
      [] OTHER -> "error"

\* switch errDetail.Issue, after OrderDetail
PaypalDetailIssue(issue) ==
    CASE issue = "" -> "proceed"
      [] issue = "ORDER_NOT_APPROVED" -> PaymentStateCanceled
      [] OTHER -> "error"

\* switch detailRsp.Response.Status
PaypalOrderStatus(status) ==
    IF status = "COMPLETED" THEN PaymentStatePaid ELSE PaymentStateError

PaypalNotify(body, orderId, ord, net) ==
    LET r1     == <<"paypal.order.capture">>
        r2     == r1 \o <<"paypal.order.detail">>
        cap    == OrderCapture(ord, orderId, net)
        after  == cap.order
        c      == PaypalCaptureIssue(cap.issue)
        dIssue == IF net.failAt = 2 /\ net.mode = "rejected"
                  THEN "INTERNAL_SERVER_ERROR" ELSE ""
        d      == PaypalDetailIssue(dIssue)
        attach == parseAttachString(after.attach)
    IN  IF net.failAt = 1 /\ net.mode = "transport"
        THEN NErr("paypal: order capture", r1, ord, NoToken)
        ELSE IF cap.issue = "NO_DETAILS"
        THEN \* captureRsp.ErrorResponse.Details[0] indexes an empty slice
             NPanic(r1, after, NoToken)
        ELSE IF c = PaymentStateCanceled
        THEN NOk(StatusMessage(PaymentStateCanceled, <<"description of ", cap.issue>>),
                 r1, after, NoToken)
        ELSE IF c = "error"
        THEN NErr(cap.issue, r1, after, NoToken)
        ELSE IF net.failAt = 2 /\ net.mode = "transport"
        THEN NErr("paypal: order detail", r2, after, NoToken)
        ELSE IF d = PaymentStateCanceled
        THEN NOk(StatusMessage(PaymentStateCanceled, <<"description of ", dIssue>>),
                 r2, after, NoToken)
        ELSE IF d = "error"
        THEN NErr(dIssue, r2, after, NoToken)
        ELSE IF net.failAt = 2 /\ net.mode = "malformed"
        THEN \* the amount value does not parse as a float
             NErr("strconv.ParseFloat", r2, after, NoToken)
        ELSE IF attach.err
        THEN NErr("parseAttachString", r2, after, NoToken)
        ELSE NOk([PaymentName |-> after.id,
                  PaymentStatus |-> PaypalOrderStatus(after.status),
                  NotifyMessage |-> <<>>,
                  ProductName |-> attach.b, ProductDisplayName |-> attach.a,
                  ProviderName |-> attach.c,
                  Price |-> priceStringToFloat64(after.amount), Currency |-> after.currency,
                  OrderId |-> orderId], r2, after, NoToken)

(***************************************************************************)
(* GC: Notify reads the callback body and issues no request.               *)
(***************************************************************************)
GcKeys == {"op", "xmpch", "version", "data", "requesttime", "sign"}

\* a callback body: whether it parses as a URL query, the keys it has, whether
\* its data field is base64 and JSON, and the notification the data spells
GcBody(keys, b64, json, state) ==
    [query |-> TRUE, keys |-> keys, b64 |-> b64, json |-> json,
     OrderNo |-> <<"n">>, Amount |-> 99990, OrderState |-> state, OrderDate |-> "20240101"]

EmptyBody == GcBody({}, FALSE, FALSE, "")

PaidBody == GcBody(GcKeys, TRUE, TRUE, "1")

Bodies ==
    { EmptyBody,
      PaidBody,
      GcBody(GcKeys, TRUE, TRUE, "0"),
      GcBody(GcKeys, FALSE, FALSE, ""),
      [EmptyBody EXCEPT !.query = FALSE] }

GcNotify(body, orderId, ord, net) ==
    IF ~body.query
    THEN NErr("url.ParseQuery", <<>>, ord, NoToken)
    ELSE IF ~(GcKeys \subseteq body.keys)
    THEN \* m["op"][0] and the like index an empty slice
         NPanic(<<>>, ord, NoToken)
    ELSE IF ~body.b64
    THEN NErr("base64 decode", <<>>, ord, NoToken)
    ELSE IF ~body.json
    THEN NErr("json.Unmarshal", <<>>, ord, NoToken)
    ELSE IF body.OrderState # "1"
    THEN \* fmt.Errorf("error order state: %s", notifyRespInfo.OrderDate)
         NErr("error order state: <OrderDate>", <<>>, ord, NoToken)
    ELSE NOk([PaymentName |-> body.OrderNo, PaymentStatus |-> PaymentStatePaid,
              NotifyMessage |-> <<>>,
              ProductName |-> <<>>, ProductDisplayName |-> <<>>, ProviderName |-> <<>>,
              Price |-> body.Amount, Currency |-> "", OrderId |-> orderId],
             <<>>, ord, NoToken)

(***************************************************************************)
(* Balance and Dummy: Notify.                                              *)
(***************************************************************************)
BalanceNotify(body, orderId, ord, net) ==
    NOk(StatusOnly(PaymentStatePaid), <<>>, ord, NoToken)

DummyNotify(body, orderId, ord, net) ==
    NOk(StatusOnly(PaymentStatePaid), <<>>, ord, NoToken)

(***************************************************************************)
(* Pay, adapter by adapter.  A successful Pay leaves a new order at the    *)
(* vendor.                                                                 *)
(***************************************************************************)
NewOrder(id, ref, status, payStatus, attach, amount, currency) ==
    [issued |-> TRUE, exists |-> TRUE, id |-> id, ref |-> ref,
     status |-> status, payStatus |-> payStatus, attach |-> attach, hasAttach |-> TRUE,
     amount |-> amount, currency |-> currency]

StripePay(r, ord, net) ==
    LET description == joinAttachString(<<r.ProductName, r.ProductDisplayName, r.ProviderName>>)
        r1 == <<"product.new">>
        r2 == r1 \o <<"price.new">>
        r3 == r2 \o <<"checkout.session.new">>
    IN  IF net.failAt = 1 THEN PErr("stripe: product new", r1, ord, NoToken)
        ELSE IF net.failAt = 2 THEN PErr("stripe: price new", r2, ord, NoToken)
        ELSE IF net.failAt = 3 THEN PErr("stripe: checkout session new", r3, ord, NoToken)
        ELSE POk([PayUrl |-> "stripe-checkout-url", OrderId |-> StripeSessionId,
                  AttachInfo |-> {}], r3,
                 NewOrder(StripeSessionId, r.PaymentName, "open", "unpaid", description,
                          priceFloat64ToInt64(r.Price), r.Currency), NoToken)

\* CreateIntent: ret "ok" carries the created intent (as the vendor's order)
CreateIntent(r, ord, net, tok) ==
    LET description == joinAttachString(<<r.ProductName, r.ProductDisplayName, r.ProviderName>>)
        a == authRequest("payment_intents.create", tok, net)
    IN  IF a.ret = "err"
        THEN [ret |-> "err", err |-> "failed to create payment intent", order |-> ord,
              reqs |-> a.reqs, cache |-> a.cache]
        ELSE IF a.answer # "payload"
        THEN \* intentRes["id"].(string) on an answer without a string id panics
             [ret |-> "panic", err |-> "", order |-> ord, reqs |-> a.reqs, cache |-> a.cache]
        ELSE [ret |-> "ok", err |-> "", reqs |-> a.reqs, cache |-> a.cache,
              order |-> NewOrder(r.PaymentName, r.PaymentName, "REQUIRES_PAYMENT_METHOD", "",
                                 description, r.Price, r.Currency)]

AirwallexPay(r, ord, net, tok) ==
    LET c == CreateIntent(r, ord, net, tok)
    IN  IF c.ret = "err" THEN PErr(c.err, c.reqs, ord, c.cache)
        ELSE IF c.ret = "panic" THEN PPanic(c.reqs, ord, c.cache)
        ELSE POk([PayUrl |-> "airwallex-checkout-url", OrderId |-> c.order.ref,
                  AttachInfo |-> {}], c.reqs, c.order, c.cache)

AlipayPay(r, ord, net) ==
    LET subject == joinAttachString(<<r.ProductName, r.ProductDisplayName, r.ProviderName>>)
        r1 == <<"alipay.trade.page.pay">>
    IN  IF net.failAt = 1 THEN PErr("alipay: trade page pay", r1, ord, NoToken)
        ELSE \* the gateway creates the trade when the buyer opens the page
             POk([PayUrl |-> "alipay-page-url", OrderId |-> r.PaymentName, AttachInfo |-> {}],
                 r1,
                 [NewOrder(r.PaymentName, r.PaymentName, "WAIT_BUYER_PAY", "", subject,
                           priceFloat64ToString(r.Price), "") EXCEPT !.exists = FALSE],
                 NoToken)

\* a variant of the choice of order-creation request that never takes JSAPI
WechatTradeType_NativeOnly(r) == "native"

\* if r.PaymentEnv == PaymentEnvWechatBrowser { JSAPI } else { Native }
WechatTradeType(r) == IF r.PaymentEnv = PaymentEnvWechatBrowser THEN "jsapi" ELSE "native"

WechatPay(r, ord, net) ==
    LET desc == joinAttachString(<<r.ProductDisplayName, r.ProductName, r.ProviderName>>)
        created == NewOrder(r.PaymentName, r.PaymentName, "NOTPAY", "", desc,
                            priceFloat64ToInt64(r.Price), r.Currency)
    IN  IF WechatTradeType(r) = "jsapi"
        THEN IF r.PayerId = <<>>
             THEN PErr("failed to get the payer's openid, please retry login", <<>>, ord,
                       NoToken)
             ELSE IF net.failAt = 1
             THEN PErr("wechat: jsapi", <<"wechat.transaction.jsapi">>, ord, NoToken)
             ELSE POk([PayUrl |-> "", OrderId |-> r.PaymentName,
                       AttachInfo |-> {"appId", "timeStamp", "nonceStr", "package",
                                       "signType", "paySign"}],
                      <<"wechat.transaction.jsapi">>, created, NoToken)
        ELSE IF net.failAt = 1
             THEN PErr("wechat: native", <<"wechat.transaction.native">>, ord, NoToken)
             ELSE POk([PayUrl |-> "wechat-code-url", OrderId |-> r.PaymentName,
                       AttachInfo |-> {}],
                      <<"wechat.transaction.native">>, created, NoToken)

PaypalPay(r, ord, net) ==
    LET description == joinAttachString(<<r.ProductDisplayName, r.ProductName, r.ProviderName>>)
        r1 == <<"paypal.order.create">>
    IN  IF net.failAt = 1 THEN PErr("paypal: create order", r1, ord, NoToken)
        ELSE POk([PayUrl |-> "paypal-approve-url", OrderId |-> PaypalOrderId,
                  AttachInfo |-> {}], r1,
                 NewOrder(PaypalOrderId, <<>>, "CREATED", "", description,
                          priceFloat64ToString(r.Price), r.Currency), NoToken)

\* fmt.Sprintf("%.2f", price) with the trailing zeros and point trimmed
getPriceString(price) == priceFloat64ToString(price)

GcPay(r, ord, net) ==
    LET r1 == <<"gc.OrderCreate">>
    IN  IF net.failAt = 1 THEN PErr("gc: order create", r1, ord, NoToken)
        ELSE POk([PayUrl |-> "gc-pay-url", OrderId |-> <<>>, AttachInfo |-> {}], r1,
                 [NewOrder(r.PaymentName, r.PaymentName, "0", "", <<>>,
                           getPriceString(r.Price), "") EXCEPT !.hasAttach = FALSE],
                 NoToken)

\* strings.Split(id, "/") must give two tokens, or the function panics
GetOwnerAndNameFromId(id) ==
    LET tokens == Split(id, "/")
    IN  IF Len(tokens) # 2
        THEN [panic |-> TRUE, owner |-> <<>>, name |-> <<>>]
        ELSE [panic |-> FALSE, owner |-> tokens[1], name |-> tokens[2]]

BalancePay(r, ord, net) ==
    LET o == GetOwnerAndNameFromId(r.PayerId)
    IN  IF o.panic THEN PPanic(<<>>, ord, NoToken)
        ELSE POk([PayUrl |-> r.ReturnUrl, OrderId |-> o.owner \o <<"/">> \o r.PaymentName,
                  AttachInfo |-> {}], <<>>, ord, NoToken)

DummyPay(r, ord, net) ==
    POk([PayUrl |-> r.ReturnUrl, OrderId |-> <<>>, AttachInfo |-> {}], <<>>, ord, NoToken)

(***************************************************************************)
(* The environment: the states the payer and the gateway can put the       *)
(* order in.  "FOO_BAR" stands for a state no adapter enumerates.          *)
(***************************************************************************)
OuterStates(p) ==
    CASE p = "Stripe"    -> {"open", "complete", "expired", "FOO_BAR"}
      [] p = "Airwallex" -> {"PENDING", "REQUIRES_PAYMENT_METHOD", "REQUIRES_CUSTOMER_ACTION",
                             "REQUIRES_CAPTURE", "CANCELLED", "EXPIRED", "SUCCEEDED",
                             "FOO_BAR"}
      [] p = "Alipay"    -> {"WAIT_BUYER_PAY", "TRADE_CLOSED", "TRADE_SUCCESS",
                             "TRADE_FINISHED", "FOO_BAR"}
      [] p = "Wechat"    -> {"SUCCESS", "CLOSED", "NOTPAY", "USERPAYING", "REFUND", "FOO_BAR"}
      [] p = "Paypal"    -> {"CREATED", "SAVED", "APPROVED", "VOIDED", "COMPLETED",
                             "PAYER_ACTION_REQUIRED", "FOO_BAR"}
      [] p = "Gc"        -> {"0", "1", "FOO_BAR"}
      [] OTHER           -> {}

InnerStates(p) ==
    CASE p = "Stripe"    -> {"paid", "unpaid", "FOO_BAR"}
      [] p = "Airwallex" -> {"", "RECEIVED", "AUTHORIZED", "CAPTURE_REQUESTED", "PAID",
                             "SETTLED", "FOO_BAR"}
      [] OTHER           -> {""}

\* a PayPal order is captured only by a capture request, and a captured order
\* stays captured ("FOO_BAR": a state the gateway gives a captured order)
PaypalMoves(from) ==
    CASE from \in {"CREATED", "SAVED", "PAYER_ACTION_REQUIRED"}
              -> {"SAVED", "PAYER_ACTION_REQUIRED", "APPROVED", "VOIDED"}
      [] from = "APPROVED"  -> {"VOIDED"}
      [] from = "COMPLETED" -> {"FOO_BAR"}
      [] from = "FOO_BAR"   -> {"COMPLETED"}
      [] OTHER              -> {}

\* the identifier the caller passes to Notify
OrderIdOf(p) ==
    CASE p = "Stripe"  -> StripeSessionId
      [] p = "Paypal"  -> PaypalOrderId
      [] p = "Balance" -> <<"o", "/", "n">>
      [] p = "Dummy"   -> <<>>
      [] OTHER         -> ReqBase.PaymentName

(***************************************************************************)
(* The state machine.                                                      *)
(***************************************************************************)
\* the record of a call: its inputs, the vendor's order as the call found it
\* (kept for Notify), whether the call changed it, and what the call returned
NoCall ==
    [op |-> "none", body |-> EmptyBody, req |-> ReqBase, net |-> NoFail,
     before |-> NoOrder, changed |-> FALSE,
     resolvedBefore |-> FALSE, decidedBefore |-> FALSE,
     ret |-> "", res |-> ZeroResult, resp |-> NoResp, err |-> "", reqs |-> <<>>]

Call(op, body, req, net, out) ==
    [op |-> op, body |-> body, req |-> req, net |-> net,
     before |-> IF op = "Notify" THEN order ELSE NoOrder, changed |-> (out.order # order),
     resolvedBefore |-> resolved, decidedBefore |-> decided,
     ret |-> out.ret, res |-> out.res, resp |-> out.resp, err |-> out.err,
     reqs |-> out.reqs]

\* what is kept of the Notify call before the last one: only a call all of
\* whose requests were answered is kept
NoPrev == [valid |-> FALSE, body |-> EmptyBody, before |-> NoOrder, ret |-> "",
           res |-> ZeroResult]

PrevOf(call) ==
    IF call.op = "Notify" /\ call.net = NoFail
    THEN [valid |-> TRUE, body |-> call.body, before |-> call.before, ret |-> call.ret,
          res |-> call.res]
    ELSE NoPrev

Init ==
    /\ pp \in Providers
    /\ order = NoOrder
    /\ tokenCache = NoToken
    /\ last = NoCall
    /\ prev = NoPrev
    /\ resolved = FALSE
    /\ decided = FALSE
    /\ codec = Idle /\ life = Idle /\ conc = Idle /\ ali = Idle

\* the number of vendor requests a call of the adapter can issue
NotifyRequests(p) ==
    CASE p \in {"Stripe", "Airwallex", "Paypal"} -> 2
      [] p \in {"Alipay", "Wechat"} -> 1
      [] OTHER -> 0

PayRequests(p) ==
    CASE p = "Stripe" -> 3
      [] p = "Airwallex" -> 2
      [] p \in {"Alipay", "Wechat", "Paypal", "Gc"} -> 1
      [] OTHER -> 0

\* the failures the environment can inflict on a call issuing up to n requests
NetsUpTo(n) == {x \in Nets : x.failAt <= n}

\* the callback bodies a caller passes on: every form for GC, which reads
\* them, and two different ones for the other adapters
BodiesFor(p) == IF p = "Gc" THEN Bodies ELSE {EmptyBody, PaidBody}

\* one Notify call returning `out`
DoNotify(body, net, out) ==
    /\ last' = Call("Notify", body, ReqBase, net, out)
    /\ prev' = PrevOf(last)
    /\ order' = out.order
    /\ resolved' = (resolved \/ out.ret = "ok")
    /\ decided' = (decided \/ (out.ret = "ok" /\ out.res.PaymentStatus # PaymentStateCanceled))
    /\ UNCHANGED <<pp, sideVars>>

\* one Pay call returning `out`: a successful Pay starts a new order
DoPay(r, net, out) ==
    /\ last' = Call("Pay", EmptyBody, r, net, out)
    /\ prev' = NoPrev
    /\ order' = out.order
    /\ resolved' = (resolved /\ out.order = order)
    /\ decided' = (decided /\ out.order = order)
    /\ UNCHANGED <<pp, sideVars>>

StripeNotifyCall ==
    /\ pp = "Stripe"
    /\ \E body \in BodiesFor(pp), net \in NetsUpTo(NotifyRequests(pp)) :
           DoNotify(body, net, StripeNotify(body, OrderIdOf(pp), order, net))
    /\ UNCHANGED tokenCache

AirwallexNotifyCall ==
    /\ pp = "Airwallex"
    /\ \E body \in BodiesFor(pp), net \in NetsUpTo(NotifyRequests(pp)) :
           LET out == AirwallexNotify(body, OrderIdOf(pp), order, net, tokenCache)
           IN  DoNotify(body, net, out) /\ tokenCache' = out.token

AlipayNotifyCall ==
    /\ pp = "Alipay"
    /\ \E body \in BodiesFor(pp), net \in NetsUpTo(NotifyRequests(pp)) :
           DoNotify(body, net, AlipayNotify(body, OrderIdOf(pp), order, net))
    /\ UNCHANGED tokenCache

WechatNotifyCall ==
    /\ pp = "Wechat"
    /\ \E body \in BodiesFor(pp), net \in NetsUpTo(NotifyRequests(pp)) :
           DoNotify(body, net, WechatNotify(body, OrderIdOf(pp), order, net))
    /\ UNCHANGED tokenCache

PaypalNotifyCall ==
    /\ pp = "Paypal"
    /\ \E body \in BodiesFor(pp), net \in NetsUpTo(NotifyRequests(pp)) :
           DoNotify(body, net, PaypalNotify(body, OrderIdOf(pp), order, net))
    /\ UNCHANGED tokenCache

GcNotifyCall ==
    /\ pp = "Gc"
    /\ \E body \in BodiesFor(pp), net \in NetsUpTo(NotifyRequests(pp)) :
           DoNotify(body, net, GcNotify(body, OrderIdOf(pp), order, net))
    /\ UNCHANGED tokenCache

BalanceNotifyCall ==
    /\ pp = "Balance"
    /\ \E body \in BodiesFor(pp), net \in NetsUpTo(NotifyRequests(pp)) :
           DoNotify(body, net, BalanceNotify(body, OrderIdOf(pp), order, net))
    /\ UNCHANGED tokenCache

DummyNotifyCall ==
    /\ pp = "Dummy"
    /\ \E body \in BodiesFor(pp), net \in NetsUpTo(NotifyRequests(pp)) :
           DoNotify(body, net, DummyNotify(body, OrderIdOf(pp), order, net))
    /\ UNCHANGED tokenCache

StripePayCall ==
    /\ pp = "Stripe"
    /\ \E r \in Reqs, net \in NetsUpTo(PayRequests(pp)) : DoPay(r, net, StripePay(r, order, net))
    /\ UNCHANGED tokenCache

AirwallexPayCall ==
    /\ pp = "Airwallex"
    /\ \E r \in Reqs, net \in NetsUpTo(PayRequests(pp)) :
           LET out == AirwallexPay(r, order, net, tokenCache)
           IN  DoPay(r, net, out) /\ tokenCache' = out.token

AlipayPayCall ==
    /\ pp = "Alipay"
    /\ \E r \in Reqs, net \in NetsUpTo(PayRequests(pp)) : DoPay(r, net, AlipayPay(r, order, net))
    /\ UNCHANGED tokenCache

WechatPayCall ==
    /\ pp = "Wechat"
    /\ \E r \in Reqs, net \in NetsUpTo(PayRequests(pp)) : DoPay(r, net, WechatPay(r, order, net))
    /\ UNCHANGED tokenCache

PaypalPayCall ==
    /\ pp = "Paypal"
    /\ \E r \in Reqs, net \in NetsUpTo(PayRequests(pp)) : DoPay(r, net, PaypalPay(r, order, net))
    /\ UNCHANGED tokenCache

GcPayCall ==
    /\ pp = "Gc"
    /\ \E r \in Reqs, net \in NetsUpTo(PayRequests(pp)) : DoPay(r, net, GcPay(r, order, net))
    /\ UNCHANGED tokenCache

BalancePayCall ==
    /\ pp = "Balance"
    /\ \E r \in Reqs, net \in NetsUpTo(PayRequests(pp)) : DoPay(r, net, BalancePay(r, order, net))
    /\ UNCHANGED tokenCache

DummyPayCall ==
    /\ pp = "Dummy"
    /\ \E r \in Reqs, net \in NetsUpTo(PayRequests(pp)) : DoPay(r, net, DummyPay(r, order, net))
    /\ UNCHANGED tokenCache

\* the payer or the gateway moves the order to another state
VendorAct ==
    /\ order.issued
    /\ \E s \in OuterStates(pp), i \in InnerStates(pp) :
           /\ pp = "Paypal" => s \in PaypalMoves(order.status)
           /\ order' = [order EXCEPT !.exists = TRUE, !.status = s, !.payStatus = i]
    /\ order' # order
    /\ last' = NoCall
    /\ prev' = NoPrev
    /\ UNCHANGED <<pp, tokenCache, resolved, decided, sideVars>>

\* time passes beyond the cached token's expiry
TokenExpire ==
    /\ tokenCache.set /\ ~tokenCache.expired
    /\ tokenCache' = [tokenCache EXCEPT !.expired = TRUE]
    /\ UNCHANGED <<pp, order, last, prev, resolved, decided, sideVars>>

Next ==
    \/ StripeNotifyCall \/ AirwallexNotifyCall \/ AlipayNotifyCall \/ WechatNotifyCall
    \/ PaypalNotifyCall \/ GcNotifyCall \/ BalanceNotifyCall \/ DummyNotifyCall
    \/ StripePayCall \/ AirwallexPayCall \/ AlipayPayCall \/ WechatPayCall
    \/ PaypalPayCall \/ GcPayCall \/ BalancePayCall \/ DummyPayCall
    \/ VendorAct \/ TokenExpire

Spec == Init /\ [][Next]_vars

(***************************************************************************)
(* SpecCodec: the amount codec and the attachment codec, each behaviour     *)
(* applying one of them once to an input drawn from a bounded set.         *)
(***************************************************************************)
\* the variables of Spec, held at the value they have before any call
MainIdle ==
    /\ pp = "Dummy" /\ order = NoOrder /\ tokenCache = NoToken /\ last = NoCall
    /\ prev = NoPrev /\ resolved = FALSE /\ decided = FALSE

MaxMinor == 60
MaxLen == 4
MaxTok == 2

\* float64 amounts up to MaxMinor hundredths, with up to three fraction digits
Amounts == 0..(MaxMinor * 10)

Letters == {"a", "b"}

StringsUpTo(alphabet, n) == UNION {[1..k -> alphabet] : k \in 0..n}

CodecInit ==
    /\ MainIdle
    /\ codec = [op |-> "none"]
    /\ life = Idle /\ conc = Idle /\ ali = Idle

\* priceFloat64ToInt64(priceInt64ToFloat64(x))
MinorRoundTrip ==
    /\ codec.op = "none"
    /\ \E x \in 0..MaxMinor :
           codec' = [op |-> "minor", n |-> x,
                     res |-> priceFloat64ToInt64(priceInt64ToFloat64(x))]
    /\ UNCHANGED <<mainVars, life, conc, ali>>

\* priceInt64ToFloat64(priceFloat64ToInt64(a))
MajorRoundTrip ==
    /\ codec.op = "none"
    /\ \E a \in Amounts :
           codec' = [op |-> "major", n |-> a,
                     res |-> priceInt64ToFloat64(priceFloat64ToInt64(a))]
    /\ UNCHANGED <<mainVars, life, conc, ali>>

\* parseAttachString(joinAttachString([]string{a, b, c}))
AttachRoundTrip ==
    /\ codec.op = "none"
    /\ \E a, b, c \in StringsUpTo(Letters, MaxTok) :
           codec' = [op |-> "attach", toks |-> <<a, b, c>>,
                     str |-> joinAttachString(<<a, b, c>>),
                     parsed |-> parseAttachString(joinAttachString(<<a, b, c>>))]
    /\ UNCHANGED <<mainVars, life, conc, ali>>

\* parseAttachString(s) for an arbitrary string
AttachParse ==
    /\ codec.op = "none"
    /\ \E str \in StringsUpTo(Letters \cup {Sep}, MaxLen) :
           codec' = [op |-> "parse", toks |-> <<>>, str |-> str,
                     parsed |-> parseAttachString(str)]
    /\ UNCHANGED <<mainVars, life, conc, ali>>

CodecNext == MinorRoundTrip \/ MajorRoundTrip \/ AttachRoundTrip \/ AttachParse

SpecCodec == CodecInit /\ [][CodecNext]_vars

(***************************************************************************)
(* SpecLife: a provider is constructed from credentials, some of them      *)
(* possibly empty, and GetInvoice, GetResponseError and (on an instance    *)
(* without client) Pay and Notify are called on what the constructor       *)
(* returned.  An instance is "nil" (none returned), "zero" (the zero       *)
(* value, Client nil) or "full"; an error is "" when nil.                  *)
(***************************************************************************)
CredentialNames(p) ==
    CASE p = "Stripe"    -> {"PublishableKey", "SecretKey"}
      [] p = "Airwallex" -> {"clientId", "apiKey"}
      [] p = "Alipay"    -> {"appId", "appCertificate", "appPrivateKey", "authorityPublicKey",
                             "authorityRootPublicKey"}
      [] p = "Wechat"    -> {"mchId", "apiV3Key", "appId", "serialNo", "privateKey"}
      [] p = "Paypal"    -> {"clientID", "secret"}
      [] p = "Gc"        -> {"clientId", "clientSecret", "host"}
      [] OTHER           -> {}

\* what a constructor returns
Built(inst, err) == [inst |-> inst, err |-> err]

\* `lib` is what the vendor SDK makes of credentials that are present:
\* "ok", or "reject" (a key it cannot read, a certificate or token it cannot fetch)
Libs == {"ok", "reject"}

NewStripePaymentProvider(creds, lib) == Built("full", "")

NewAirwallexPaymentProvider(creds, lib) == Built("full", "")

NewAlipayPaymentProvider(creds, lib) ==
    IF creds["appId"] = "" \/ creds["appPrivateKey"] = "" \/ lib = "reject"
    THEN Built("nil", "alipay.NewClient")
    ELSE IF creds["appCertificate"] = "" \/ creds["authorityRootPublicKey"] = ""
            \/ creds["authorityPublicKey"] = ""
    THEN Built("nil", "SetCertSnByContent")
    ELSE Built("full", "")

NewWechatPaymentProvider(creds, lib) ==
    IF \E k \in DOMAIN creds : creds[k] = ""
    THEN Built("zero", "")
    ELSE IF lib = "reject" THEN Built("nil", "wechat.NewClientV3")
    ELSE Built("full", "")

NewPaypalPaymentProvider(creds, lib) ==
    IF creds["clientID"] = "" \/ creds["secret"] = "" \/ lib = "reject"
    THEN Built("nil", "paypal.NewClient")
    ELSE Built("full", "")

NewGcPaymentProvider(creds, lib) == Built("full", "")

NewBalancePaymentProvider(creds, lib) == Built("full", "")

NewDummyPaymentProvider(creds, lib) == Built("full", "")

NewProvider(p, creds, lib) ==
    CASE p = "Stripe"    -> NewStripePaymentProvider(creds, lib)
      [] p = "Airwallex" -> NewAirwallexPaymentProvider(creds, lib)
      [] p = "Alipay"    -> NewAlipayPaymentProvider(creds, lib)
      [] p = "Wechat"    -> NewWechatPaymentProvider(creds, lib)
      [] p = "Paypal"    -> NewPaypalPaymentProvider(creds, lib)
      [] p = "Gc"        -> NewGcPaymentProvider(creds, lib)
      [] p = "Balance"   -> NewBalancePaymentProvider(creds, lib)
      [] OTHER           -> NewDummyPaymentProvider(creds, lib)

\* what a method call returns: ret is "ok", "err" or "panic"
MOut(ret, url, err, reqs, token) ==
    [ret |-> ret, url |-> url, err |-> err, reqs |-> reqs, token |-> token]

NoMethod == MOut("", "", "", <<>>, <<>>)

\* return "", nil
NoInvoice == MOut("ok", "", "", <<>>, <<>>)

StripeGetInvoice(paymentName, invoiceType) == NoInvoice
AirwallexGetInvoice(paymentName, invoiceType) == NoInvoice
AlipayGetInvoice(paymentName, invoiceType) == NoInvoice
WechatGetInvoice(paymentName, invoiceType) == NoInvoice
PaypalGetInvoice(paymentName, invoiceType) == NoInvoice
BalanceGetInvoice(paymentName, invoiceType) == NoInvoice
DummyGetInvoice(paymentName, invoiceType) == NoInvoice

\* the answers of the GC gateway to InvoiceEBillByOrder: doPost fails
\* (transport), the body is or is not JSON, the return code, the base64 and
\* JSON decoding of data, the invoice state and URL
GcInvoiceAnswers ==
    [transport : BOOLEAN, json : BOOLEAN, ReturnCode : {"SUCCESS", "FAIL"}, b64 : BOOLEAN,
     info : BOOLEAN, State : {"0", "1"}, Url : {"", "https://invoice"}]

\* a variant of GC's GetInvoice without the check for an empty URL
GcGetInvoice_NoUrlCheck(paymentName, invoiceType, answer) ==
    LET reqs == <<[op |-> "InvoiceEBillByOrder", busno |-> paymentName,
                   payertype |-> IF invoiceType = "Organization" THEN "1" ELSE "0"]>>
    IN  IF answer.transport THEN MOut("err", "", "doPost", reqs, <<>>)
        ELSE IF ~answer.json THEN MOut("err", "", "json.Unmarshal", reqs, <<>>)
        ELSE IF answer.ReturnCode # "SUCCESS" THEN MOut("err", "", "return_code", reqs, <<>>)
        ELSE IF ~answer.b64 THEN MOut("err", "", "base64", reqs, <<>>)
        ELSE IF ~answer.info THEN MOut("err", "", "json.Unmarshal", reqs, <<>>)
        ELSE IF answer.State = "0" THEN MOut("err", "", "invoice in progress", reqs, <<>>)
        ELSE MOut("ok", answer.Url, "", reqs, <<>>)

GcGetInvoice(paymentName, invoiceType, answer) ==
    LET reqs == <<[op |-> "InvoiceEBillByOrder", busno |-> paymentName,
                   payertype |-> IF invoiceType = "Organization" THEN "1" ELSE "0"]>>
    IN  IF answer.transport THEN MOut("err", "", "doPost", reqs, <<>>)
        ELSE IF ~answer.json THEN MOut("err", "", "json.Unmarshal", reqs, <<>>)
        ELSE IF answer.ReturnCode # "SUCCESS" THEN MOut("err", "", "return_code", reqs, <<>>)
        ELSE IF ~answer.b64 THEN MOut("err", "", "base64", reqs, <<>>)
        ELSE IF ~answer.info THEN MOut("err", "", "json.Unmarshal", reqs, <<>>)
        ELSE IF answer.State = "0" THEN MOut("err", "", "invoice in progress", reqs, <<>>)
        ELSE IF answer.Url = "" THEN MOut("err", "", "invoice URL is empty", reqs, <<>>)
        ELSE MOut("ok", answer.Url, "", reqs, <<>>)

GetInvoice(p, paymentName, invoiceType, answer) ==
    CASE p = "Stripe"    -> StripeGetInvoice(paymentName, invoiceType)
      [] p = "Airwallex" -> AirwallexGetInvoice(paymentName, invoiceType)
      [] p = "Alipay"    -> AlipayGetInvoice(paymentName, invoiceType)
      [] p = "Wechat"    -> WechatGetInvoice(paymentName, invoiceType)
      [] p = "Paypal"    -> PaypalGetInvoice(paymentName, invoiceType)
      [] p = "Gc"        -> GcGetInvoice(paymentName, invoiceType, answer)
      [] p = "Balance"   -> BalanceGetInvoice(paymentName, invoiceType)
      [] OTHER           -> DummyGetInvoice(paymentName, invoiceType)

\* the error values passed to GetResponseError: nil ("") and two errors
AckErrors == {"", "timeout", "denied"}

\* if err == nil { return "success" } else { return "fail" }
SuccessOrFail(err) == IF err = "" THEN <<"success">> ELSE <<"fail">>

\* a variant that acknowledges success whatever the error
StripeGetResponseError_AlwaysSuccess(err) == <<"success">>

StripeGetResponseError(err) == SuccessOrFail(err)
AirwallexGetResponseError(err) == SuccessOrFail(err)
AlipayGetResponseError(err) == SuccessOrFail(err)
PaypalGetResponseError(err) == SuccessOrFail(err)
GcGetResponseError(err) == SuccessOrFail(err)

\* util.StructToJson(&WechatPayNotifyResponse{Code, Message})
WechatPayNotifyResponse(Code, Message) ==
    <<"{\"Code\":\"", Code, "\",\"Message\":\"", Message, "\"}">>

WechatGetResponseError(err) ==
    IF err = "" THEN WechatPayNotifyResponse("SUCCESS", "")
    ELSE WechatPayNotifyResponse("FAIL", err)

\* return ""
BalanceGetResponseError(err) == <<>>
DummyGetResponseError(err) == <<>>

GetResponseError(p, err) ==
    CASE p = "Stripe"    -> StripeGetResponseError(err)
      [] p = "Airwallex" -> AirwallexGetResponseError(err)
      [] p = "Alipay"    -> AlipayGetResponseError(err)
      [] p = "Wechat"    -> WechatGetResponseError(err)
      [] p = "Paypal"    -> PaypalGetResponseError(err)
      [] p = "Gc"        -> GcGetResponseError(err)
      [] p = "Balance"   -> BalanceGetResponseError(err)
      [] OTHER           -> DummyGetResponseError(err)

\* WechatPaymentProvider.Pay on the instance whose Client is nil: the openid
\* check comes before the first use of pp.Client
WechatPayWithoutClient(r) ==
    IF r.PaymentEnv = PaymentEnvWechatBrowser /\ r.PayerId = <<>>
    THEN MOut("err", "", "failed to get the payer's openid, please retry login", <<>>, <<>>)
    ELSE MOut("panic", "", "", <<>>, <<>>)

\* WechatPaymentProvider.Notify on the instance whose Client is nil
WechatNotifyWithoutClient(body, orderId) == MOut("panic", "", "", <<>>, <<>>)

NoAck == [valid |-> FALSE, arg |-> "", token |-> <<>>]

LifeInit ==
    /\ MainIdle
    /\ life = [op |-> "none", provider |-> "", creds |-> <<>>, lib |-> "ok", inst |-> "nil",
               cerr |-> "", m |-> NoMethod, arg |-> "", ack |-> NoAck, prevAck |-> NoAck]
    /\ codec = Idle /\ conc = Idle /\ ali = Idle

\* New<Provider>PaymentProvider(credentials...)
Construct ==
    /\ life.op = "none"
    /\ \E p \in Providers, lib \in Libs :
         \E creds \in [CredentialNames(p) -> {"", "k"}] :
           LET b == NewProvider(p, creds, lib)
           IN  life' = [life EXCEPT !.op = "new", !.provider = p, !.creds = creds,
                                    !.lib = lib, !.inst = b.inst, !.cerr = b.err]
    /\ UNCHANGED <<mainVars, codec, conc, ali>>

GetInvoiceCall ==
    /\ life.op # "none" /\ life.inst # "nil"
    /\ \E invoiceType \in {"Individual", "Organization"}, answer \in GcInvoiceAnswers :
           life' = [life EXCEPT !.op = "GetInvoice", !.arg = invoiceType,
                                !.m = GetInvoice(life.provider, <<"n">>, invoiceType, answer)]
    /\ UNCHANGED <<mainVars, codec, conc, ali>>

GetResponseErrorCall ==
    /\ life.op # "none" /\ life.inst # "nil"
    /\ \E err \in AckErrors :
           LET token == GetResponseError(life.provider, err)
           IN  life' = [life EXCEPT !.op = "GetResponseError", !.arg = err,
                                    !.m = MOut("ok", "", "", <<>>, token),
                                    !.ack = [valid |-> TRUE, arg |-> err, token |-> token],
                                    !.prevAck = life.ack]
    /\ UNCHANGED <<mainVars, codec, conc, ali>>

PayWithoutClient ==
    /\ life.op # "none" /\ life.inst = "zero"
    /\ \E r \in Reqs :
           life' = [life EXCEPT !.op = "Pay", !.arg = r.PaymentEnv, !.m = WechatPayWithoutClient(r)]
    /\ UNCHANGED <<mainVars, codec, conc, ali>>

NotifyWithoutClient ==
    /\ life.op # "none" /\ life.inst = "zero"
    /\ \E body \in {EmptyBody, PaidBody} :
           life' = [life EXCEPT !.op = "Notify", !.arg = "",
                                !.m = WechatNotifyWithoutClient(body, <<"n">>)]
    /\ UNCHANGED <<mainVars, codec, conc, ali>>

LifeNext ==
    \/ Construct \/ GetInvoiceCall \/ GetResponseErrorCall
    \/ PayWithoutClient \/ NotifyWithoutClient

SpecLife == LifeInit /\ [][LifeNext]_vars

(***************************************************************************)
(* SpecToken: concurrent callers of AirwallexClient.authRequest, one step  *)
(* per statement that touches tokenMutex, tokenCache or the network.       *)
(* conc.pc[c] is where caller c stands:                                    *)
(*   "idle"   outside authRequest                                          *)
(*   "lock"   in GetToken, at c.tokenMutex.Lock()                          *)
(*   "check"  lock taken, before the test of c.tokenCache                  *)
(*   "login"  the login request is in flight (c.client.Do in GetToken)     *)
(*   "write"  login answered, before c.tokenCache = &result                *)
(*   "unlock" at the return of GetToken, before the deferred Unlock        *)
(*   "do"     the payment request is in flight (c.client.Do in authRequest)*)
(* conc.holder is the holder of tokenMutex, conc.access the caller whose   *)
(* last step read or wrote tokenCache.  conc.now is time.Now(), conc.cache *)
(* is c.tokenCache (token n is the one the n-th login request returned),   *)
(* conc.logins counts the login requests issued, conc.calls the GetToken   *)
(* calls made, and conc.call[c] records caller c's call in progress.       *)
(***************************************************************************)
MaxCallers == 2

Callers == 1..MaxCallers

NoCaller == 0

\* the number of GetToken calls followed, over all callers
MaxCalls == 2

\* the clock runs over the instants 1..MaxNow; the zero time.Time, 0, lies
\* before all of them
MaxNow == 2

\* a variant of the mutex that lets every caller in
CanLock_Always(holder) == TRUE

\* c.tokenMutex.Lock() returns once nobody holds the mutex
CanLock(holder) == holder = NoCaller

\* a variant of GetToken without the deferred Unlock
Unlock_Never(holder, self) == holder

\* defer c.tokenMutex.Unlock()
Unlock(holder, self) == IF holder = self THEN NoCaller ELSE holder

\* c.tokenCache == nil
NoTokenInfo == [set |-> FALSE, Token |-> 0, parsedExpiresAt |-> 0]

\* a variant of the cache check that serves a token up to and at its expiry
CacheValid_UntilExpiry(cache, now) == cache.set /\ now <= cache.parsedExpiresAt

\* a variant of the cache check that never finds the cache usable
CacheValid_Never(cache, now) == FALSE

\* c.tokenCache != nil && time.Now().Before(c.tokenCache.parsedExpiresAt)
CacheValid(cache, now) == cache.set /\ now < cache.parsedExpiresAt

\* the expires_at texts of a login answer: an RFC 3339 time (with "+0000" for
\* the zone) denoting instant t, or a text that is no such time
NotATime == [rfc3339 |-> FALSE, t |-> 0]

\* the vendor sends the instant of the login (the token is of no use) or a later one
ExpiresAtTexts(now) == {NotATime} \cup [rfc3339 : {TRUE}, t : {now, now + 1}]

\* the answers to the login request: no answer, a body that is not JSON, a
\* body with an empty token, or token n with its expires_at
LoginAnswers(n, now) ==
    [kind : {"transport", "undecodable", "empty"}, token : {0}, expires_at : {NotATime}]
    \cup [kind : {"token"}, token : {n}, expires_at : ExpiresAtTexts(now)]

\* result.parsedExpiresAt, _ = time.Parse(time.RFC3339, expiresAt): the zero
\* time when the text does not parse
ParseExpiresAt(expires_at) == IF expires_at.rfc3339 THEN expires_at.t ELSE 0

\* a variant of the login decoding that accepts an empty token
DecodeLogin_EmptyTokenOk(answer) ==
    IF answer.kind \in {"transport", "undecodable"}
    THEN [err |-> TRUE, info |-> NoTokenInfo]
    ELSE [err |-> FALSE,
          info |-> [set |-> TRUE, Token |-> answer.token,
                    parsedExpiresAt |-> ParseExpiresAt(answer.expires_at)]]

\* from c.client.Do(req) to result.parsedExpiresAt: an error, or the decoded result
DecodeLogin(answer) ==
    IF answer.kind \in {"transport", "undecodable", "empty"}
    THEN [err |-> TRUE, info |-> NoTokenInfo]
    ELSE [err |-> FALSE,
          info |-> [set |-> TRUE, Token |-> answer.token,
                    parsedExpiresAt |-> ParseExpiresAt(answer.expires_at)]]

\* what is recorded of a caller's GetToken call: whether the cache was
\* unusable when the call began, how many login requests had been issued
\* then, the cache it found under the mutex, the kind of answer its login
\* request got, and the token info the call has in hand
NoGetToken ==
    [stale |-> FALSE, base |-> 0, seen |-> NoTokenInfo, answer |-> "", got |-> NoTokenInfo]

\* the client as constructed, or as an earlier GetToken call left it after
\* its login request was answered with token 1
EarlierLogins ==
    {[logins |-> 0, cache |-> NoTokenInfo]}
    \cup {[logins |-> 1, cache |-> DecodeLogin(a).info] :
              a \in {x \in LoginAnswers(1, 1) : x.kind = "token"}}

TokenInit ==
    /\ MainIdle
    /\ \E e \in EarlierLogins :
         conc = [pc |-> [c \in Callers |-> "idle"], holder |-> NoCaller, cache |-> e.cache,
                 failed |-> [c \in Callers |-> FALSE], access |-> NoCaller,
                 now |-> 1, logins |-> e.logins, calls |-> 0,
                 call |-> [c \in Callers |-> NoGetToken]]
    /\ codec = Idle /\ life = Idle /\ ali = Idle

\* authRequest is entered (from CreateIntent or GetIntentByOrderId) and calls GetToken
EnterGetToken ==
    /\ conc.calls < MaxCalls
    /\ \E self \in Callers :
         /\ conc.pc[self] = "idle"
         /\ conc' = [conc EXCEPT !.pc[self] = "lock", !.failed[self] = FALSE,
                                 !.access = NoCaller, !.calls = @ + 1,
                                 !.call[self] =
                                     [NoGetToken EXCEPT
                                        !.stale = ~CacheValid(conc.cache, conc.now),
                                        !.base = conc.logins]]
    /\ UNCHANGED <<mainVars, codec, life, ali>>

\* c.tokenMutex.Lock()
AcquireLock ==
    /\ \E self \in Callers :
         /\ conc.pc[self] = "lock"
         /\ CanLock(conc.holder)
         /\ conc' = [conc EXCEPT !.pc[self] = "check", !.holder = self, !.access = NoCaller]
    /\ UNCHANGED <<mainVars, codec, life, ali>>

\* if c.tokenCache != nil && ... { return c.tokenCache.Token, nil }; otherwise
\* the login request is issued
CheckCache ==
    /\ \E self \in Callers :
         /\ conc.pc[self] = "check"
         /\ LET valid == CacheValid(conc.cache, conc.now)
            IN  conc' = [conc EXCEPT !.pc[self] = IF valid THEN "unlock" ELSE "login",
                                     !.access = self,
                                     !.logins = IF valid THEN @ ELSE @ + 1,
                                     !.call[self].seen = conc.cache,
                                     !.call[self].got = IF valid THEN conc.cache
                                                       ELSE NoTokenInfo]
    /\ UNCHANGED <<mainVars, codec, life, ali>>

\* resp, err := c.client.Do(req) and the decoding of the login answer
LoginAnswer ==
    /\ \E self \in Callers :
         /\ conc.pc[self] = "login"
         /\ \E answer \in LoginAnswers(conc.logins, conc.now) :
              LET result == DecodeLogin(answer)
              IN  conc' = [conc EXCEPT !.pc[self] = IF result.err THEN "unlock" ELSE "write",
                                       !.failed[self] = result.err, !.access = NoCaller,
                                       !.call[self].answer = answer.kind,
                                       !.call[self].got = result.info]
    /\ UNCHANGED <<mainVars, codec, life, ali>>

\* c.tokenCache = &result
WriteCache ==
    /\ \E self \in Callers :
         /\ conc.pc[self] = "write"
         /\ conc' = [conc EXCEPT !.pc[self] = "unlock",
                                 !.cache = conc.call[self].got,
                                 !.access = self]
    /\ UNCHANGED <<mainVars, codec, life, ali>>

\* GetToken returns (the deferred Unlock runs); authRequest returns the error
\* or goes on to its own request
ReleaseLock ==
    /\ \E self \in Callers :
         /\ conc.pc[self] = "unlock"
         /\ conc' = [conc EXCEPT !.pc[self] = IF conc.failed[self] THEN "idle" ELSE "do",
                                 !.holder = Unlock(conc.holder, self), !.access = NoCaller,
                                 !.call[self] = IF conc.failed[self] THEN NoGetToken ELSE @]
    /\ UNCHANGED <<mainVars, codec, life, ali>>

\* the payment request of authRequest is answered
PaymentAnswer ==
    /\ \E self \in Callers :
         /\ conc.pc[self] = "do"
         /\ conc' = [conc EXCEPT !.pc[self] = "idle", !.access = NoCaller,
                                 !.call[self] = NoGetToken]
    /\ UNCHANGED <<mainVars, codec, life, ali>>

\* time passes
CacheExpires ==
    /\ conc.now < MaxNow
    /\ conc' = [conc EXCEPT !.now = @ + 1, !.access = NoCaller]
    /\ UNCHANGED <<mainVars, codec, life, ali>>

\* the steps of the callers' goroutines, as opposed to the callers' decision
\* to call and the passing of time
TokenSteps ==
    \/ AcquireLock \/ CheckCache \/ LoginAnswer \/ WriteCache
    \/ ReleaseLock \/ PaymentAnswer

TokenNext == EnterGetToken \/ TokenSteps \/ CacheExpires

SpecToken == TokenInit /\ [][TokenNext]_vars

\* the scheduler runs every goroutine that can take a step, the mutex is
\* handed to a waiting caller once it is free, and the http client's timeout
\* bounds the wait for the login answer
SpecTokenFair == SpecToken /\ WF_vars(TokenSteps)

(***************************************************************************)
(* SpecAlipay: concurrent AlipayPaymentProvider.Pay calls for different    *)
(* orders on one provider, whose pp.Client is shared.  One step per call   *)
(* on the client.  ali.pc[c] counts the client calls caller c has made:    *)
(* "start", "returnSet", "notifySet", "bodySet", "sent"; ali.client holds  *)
(* the client's ReturnUrl and NotifyUrl fields, which SetReturnUrl and     *)
(* SetNotifyUrl write without a lock and TradePagePay reads.               *)
(***************************************************************************)
\* the PayReq of caller c: its own order and its own URLs
PayReqOf(c) ==
    [PaymentName |-> <<"n", c>>, ReturnUrl |-> <<"return-url", c>>,
     NotifyUrl |-> <<"notify-url", c>>]

NoPagePay ==
    [sent |-> FALSE, out_trade_no |-> <<>>, return_url |-> <<>>, notify_url |-> <<>>,
     err |-> FALSE]

AlipayInit ==
    /\ MainIdle
    /\ ali = [pc |-> [c \in Callers |-> "start"],
              client |-> [ReturnUrl |-> <<>>, NotifyUrl |-> <<>>],
              request |-> [c \in Callers |-> NoPagePay]]
    /\ codec = Idle /\ life = Idle /\ conc = Idle

\* pp.Client.SetReturnUrl(r.ReturnUrl)
SetReturnUrl ==
    /\ \E self \in Callers :
         /\ ali.pc[self] = "start"
         /\ ali' = [ali EXCEPT !.pc[self] = "returnSet",
                               !.client.ReturnUrl = PayReqOf(self).ReturnUrl]
    /\ UNCHANGED <<mainVars, codec, life, conc>>

\* pp.Client.SetNotifyUrl(r.NotifyUrl)
SetNotifyUrl ==
    /\ \E self \in Callers :
         /\ ali.pc[self] = "returnSet"
         /\ ali' = [ali EXCEPT !.pc[self] = "notifySet",
                               !.client.NotifyUrl = PayReqOf(self).NotifyUrl]
    /\ UNCHANGED <<mainVars, codec, life, conc>>

\* bm.Set("subject", ...); bm.Set("out_trade_no", r.PaymentName); bm.Set("total_amount", ...)
SetBody ==
    /\ \E self \in Callers :
         /\ ali.pc[self] = "notifySet"
         /\ ali' = [ali EXCEPT !.pc[self] = "bodySet"]
    /\ UNCHANGED <<mainVars, codec, life, conc>>

\* pp.Client.TradePagePay(ctx, bm): the page-pay request takes return_url and
\* notify_url from the client; it gives a pay URL or an error
TradePagePay ==
    /\ \E self \in Callers, failed \in BOOLEAN :
         /\ ali.pc[self] = "bodySet"
         /\ ali' = [ali EXCEPT !.pc[self] = "sent",
                               !.request[self] =
                                   [sent |-> TRUE, out_trade_no |-> PayReqOf(self).PaymentName,
                                    return_url |-> ali.client.ReturnUrl,
                                    notify_url |-> ali.client.NotifyUrl,
                                    err |-> failed]]
    /\ UNCHANGED <<mainVars, codec, life, conc>>

\* Pay returns; the caller may pay again
PayReturns ==
    /\ \E self \in Callers :
         /\ ali.pc[self] = "sent"
         /\ ali' = [ali EXCEPT !.pc[self] = "start", !.request[self] = NoPagePay]
    /\ UNCHANGED <<mainVars, codec, life, conc>>

AlipayNext == SetReturnUrl \/ SetNotifyUrl \/ SetBody \/ TradePagePay \/ PayReturns

SpecAlipay == AlipayInit /\ [][AlipayNext]_vars

(***************************************************************************)
(* SpecStripeKey: the Stripe SDK's package variable stripe.Key.  Provider  *)
(* instances are constructed one after another and then used; life.Key is  *)
(* stripe.Key, life.inst[i] is the SecretKey field of instance i ("" while *)
(* the instance is not constructed), life.call is the last Pay or Notify:  *)
(* the instance it went through and the key each vendor request was        *)
(* authenticated with, which the SDK reads from stripe.Key when the        *)
(* request is made.                                                        *)
(***************************************************************************)
MaxInst == 3

Instances == 1..MaxInst

SecretKeys == {"sk_a", "sk_b"}

NoStripeCall == [op |-> "none", via |-> 0, auth |-> <<>>]

\* the SDK backend authenticates each request of a call with stripe.Key
StripeBackendCall(key, requests) == [i \in 1..requests |-> key]

StripeKeyInit ==
    /\ MainIdle
    /\ life = [op |-> "key", Key |-> "", inst |-> [i \in Instances |-> ""],
               call |-> NoStripeCall]
    /\ codec = Idle /\ conc = Idle /\ ali = Idle

\* pp := &StripePaymentProvider{SecretKey: SecretKey}; stripe.Key = pp.SecretKey
StripeConstruct ==
    /\ \E i \in Instances, SecretKey \in SecretKeys :
         /\ life.inst[i] = ""
         /\ \A j \in Instances : j < i => life.inst[j] # ""
         /\ life' = [life EXCEPT !.inst[i] = SecretKey, !.Key = SecretKey,
                                 !.call = NoStripeCall]
    /\ UNCHANGED <<mainVars, codec, conc, ali>>

\* Pay through instance i: product, price and checkout session are created
StripePayVia ==
    /\ \E i \in Instances :
         /\ life.inst[i] # ""
         /\ life' = [life EXCEPT !.call = [op |-> "Pay", via |-> i,
                                           auth |-> StripeBackendCall(life.Key, 3)]]
    /\ UNCHANGED <<mainVars, codec, conc, ali>>

\* Notify through instance i: the session, then (when settled) the intent
StripeNotifyVia ==
    /\ \E i \in Instances, settled \in BOOLEAN :
         /\ life.inst[i] # ""
         /\ life' = [life EXCEPT !.call = [op |-> "Notify", via |-> i,
                                           auth |-> StripeBackendCall(life.Key,
                                                        IF settled THEN 2 ELSE 1)]]
    /\ UNCHANGED <<mainVars, codec, conc, ali>>

StripeKeyNext == StripeConstruct \/ StripePayVia \/ StripeNotifyVia

SpecStripeKey == StripeKeyInit /\ [][StripeKeyNext]_vars

(***************************************************************************)
(* Properties.  `last` is the most recent call; while last.op = "Notify",  *)
(* `order` is the vendor's record as that call left it.                    *)
(***************************************************************************)
Contains(msg, word) == \E i \in 1..Len(msg) : msg[i] = word

Notified == last.op = "Notify"

\* the call's requests were all answered and the vendor has the order
Answered(call) == call.net = NoFail /\ call.before.exists

\* the raw state word that the vendor reported to the call and that the
\* adapter does not enumerate ("" when there is none)
UnknownWord(p, call) ==
    LET o == call.before.status
        i == call.before.payStatus
    IN  CASE p = "Gc" ->
                 IF call.body.query /\ GcKeys \subseteq call.body.keys /\ call.body.b64
                    /\ call.body.json /\ call.body.OrderState # "1"
                 THEN call.body.OrderState ELSE ""
          [] p = "Stripe" /\ Answered(call) ->
                 IF o \notin {"open", "complete", "expired"} THEN o
                 ELSE IF o = "complete" /\ i \notin {"paid", "unpaid"} THEN i ELSE ""
          [] p = "Airwallex" /\ Answered(call) ->
                 IF o = "FOO_BAR" THEN o
                 ELSE IF o = "SUCCEEDED" /\ i = "FOO_BAR" THEN i ELSE ""
          [] p \in {"Alipay", "Wechat"} /\ Answered(call) ->
                 IF o \in {"FOO_BAR", "TRADE_FINISHED", "REFUND"} THEN o ELSE ""
          [] p = "Paypal" /\ Answered(call) /\ ~parseAttachString(call.before.attach).err ->
                 IF o = "FOO_BAR" THEN o ELSE ""
          [] OTHER -> ""

\* C1: whenever the vendor reports a state the adapter does not enumerate,
\* Notify returns a result with status Error whose message is non-empty and
\* contains the raw state; the state is not reported as Created or Paid.
C1_UnknownStateIsErrorWithMessage ==
    (Notified /\ UnknownWord(pp, last) # "") =>
        /\ last.ret = "ok"
        /\ last.res.PaymentStatus = PaymentStateError
        /\ last.res.NotifyMessage # <<>>
        /\ Contains(last.res.NotifyMessage, UnknownWord(pp, last))

\* C2: a vendor state the adapter does not recognize never makes Notify fail
\* hard: the call returns a result with status Error and a nil error.
C2_UnknownStateIsNotHardFailure ==
    (Notified /\ UnknownWord(pp, last) # "") =>
        (last.ret = "ok" /\ last.res.PaymentStatus = PaymentStateError)

\* the status the outer axis alone decides, per adapter ("proceed": look at the inner axis)
OuterTable(p, o) ==
    IF p = "Stripe"
    THEN CASE o = "open" -> PaymentStateCreated
           [] o = "expired" -> PaymentStateTimeout
           [] o = "complete" -> "proceed"
           [] OTHER -> PaymentStateError
    ELSE CASE o \in {"PENDING", "REQUIRES_PAYMENT_METHOD", "REQUIRES_CUSTOMER_ACTION",
                     "REQUIRES_CAPTURE"} -> PaymentStateCreated
           [] o = "CANCELLED" -> PaymentStateCanceled
           [] o = "EXPIRED" -> PaymentStateTimeout
           [] o = "SUCCEEDED" -> "proceed"
           [] OTHER -> PaymentStateError

InnerTable(p, i) ==
    IF p = "Stripe"
    THEN CASE i = "paid" -> PaymentStatePaid
           [] i = "unpaid" -> PaymentStateCreated
           [] OTHER -> PaymentStateError
    ELSE CASE i \in {"", "PAID", "SETTLED"} -> PaymentStatePaid
           [] i \in {"CANCELLED", "EXPIRED", "RECEIVED", "AUTHENTICATION_REDIRECTED",
                     "AUTHORIZED", "CAPTURE_REQUESTED"} -> PaymentStateCreated
           [] OTHER -> PaymentStateError

\* C3: Stripe and Airwallex decide on the outer axis first: when the outer
\* status is not the proceed value the returned status is the one the outer
\* status alone dictates, whatever the inner status is; the inner status
\* decides only when the outer status is the proceed value.
C3_OuterAxisFirst ==
    (Notified /\ pp \in {"Stripe", "Airwallex"} /\ Answered(last)) =>
        /\ last.ret = "ok"
        /\ last.res.PaymentStatus =
              IF OuterTable(pp, last.before.status) # "proceed"
              THEN OuterTable(pp, last.before.status)
              ELSE InnerTable(pp, last.before.payStatus)

\* C3 witness: Stripe, session open (not the proceed value) with payment status paid
C3_Witness ==
    /\ Notified /\ pp = "Stripe" /\ Answered(last)
    /\ last.before.status = "open" /\ last.before.payStatus = "paid"
    /\ last.res.PaymentStatus = PaymentStateCreated

\* the vendor's record is in a settled (captured) state
Settled(p, ord) ==
    /\ ord.exists
    /\ CASE p = "Stripe"    -> ord.status = "complete" /\ ord.payStatus = "paid"
         [] p = "Airwallex" -> ord.status = "SUCCEEDED"
                               /\ ord.payStatus \notin {"AUTHORIZED", "CAPTURE_REQUESTED"}
         [] p = "Alipay"    -> ord.status \in {"TRADE_SUCCESS", "TRADE_FINISHED"}
         [] p = "Wechat"    -> ord.status = "SUCCESS"
         [] p = "Paypal"    -> ord.status = "COMPLETED"
         [] p = "Gc"        -> ord.status = "1"
         [] OTHER           -> FALSE

\* the vendor's record is authorized but not captured
AuthorizedOnly(p, ord) ==
    /\ p = "Airwallex" /\ ord.exists
    /\ \/ ord.status = "REQUIRES_CAPTURE"
       \/ ord.status = "SUCCEEDED" /\ ord.payStatus \in {"AUTHORIZED", "CAPTURE_REQUESTED"}

ReturnedPaid == Notified /\ last.ret = "ok" /\ last.res.PaymentStatus = PaymentStatePaid

\* C4 as claimed: for every adapter, Notify returns Paid only when the
\* vendor's record is settled, and an authorized-but-not-captured record
\* yields Created.
C4_PaidOnlyWhenSettled ==
    /\ ReturnedPaid => Settled(pp, order)
    /\ (Notified /\ last.net = NoFail /\ AuthorizedOnly(pp, last.before)) =>
           (last.ret = "ok" /\ last.res.PaymentStatus = PaymentStateCreated)

\* C4 as amended: the adapters that query the vendor return Paid only when the
\* queried record is settled; GC returns Paid only when the callback it decodes
\* says order state "1"; an authorized-but-not-captured record yields
\* Created; Balance and Dummy, which have no vendor record, return Paid on every call.
C4_PaidOnlyWhenSettledAmended ==
    /\ (ReturnedPaid /\ pp \in {"Stripe", "Airwallex", "Alipay", "Wechat", "Paypal"}) =>
           Settled(pp, order)
    /\ (ReturnedPaid /\ pp = "Gc") => last.body.OrderState = "1"
    /\ (Notified /\ last.net = NoFail /\ AuthorizedOnly(pp, last.before)) =>
           (last.ret = "ok" /\ last.res.PaymentStatus = PaymentStateCreated)
    /\ (Notified /\ pp \in {"Balance", "Dummy"}) => ReturnedPaid

\* C4 witness: Airwallex, intent SUCCEEDED with the attempt only AUTHORIZED: Created
C4_Witness ==
    /\ Notified /\ pp = "Airwallex" /\ last.net = NoFail
    /\ last.before.exists /\ last.before.status = "SUCCEEDED"
    /\ last.before.payStatus = "AUTHORIZED"
    /\ last.res.PaymentStatus = PaymentStateCreated

\* C5: two successive Notify calls with the same arguments, with no action of
\* the payer or the gateway in between and all requests answered, return the
\* same status and the same error/no-error outcome.
C5_IdempotentNotify ==
    (Notified /\ prev.valid /\ last.net = NoFail /\ prev.body = last.body) =>
        (prev.ret = last.ret /\ prev.res.PaymentStatus = last.res.PaymentStatus)

\* C5 witness: PayPal, the first call captured the approved order, the second
\* found it captured; both returned Paid
C5_Witness ==
    /\ Notified /\ pp = "Paypal" /\ prev.valid /\ last.net = NoFail
    /\ prev.body = last.body
    /\ prev.before.status = "APPROVED" /\ last.before.status = "COMPLETED"
    /\ prev.res.PaymentStatus = PaymentStatePaid
    /\ last.res.PaymentStatus = PaymentStatePaid

\* C6 as claimed: once a Notify call for the order has returned a result
\* without error, no later Notify call changes the vendor's record.
C6_PureReadAfterResolution ==
    (Notified /\ last.resolvedBefore) => ~last.changed

\* C6 as amended: once a Notify call for the order has returned a result whose
\* status is not Canceled, no later Notify call changes the vendor's record.
C6_PureReadAfterDecision ==
    (Notified /\ last.decidedBefore) => ~last.changed

\* C6 witness: PayPal, after a decided result, a Notify sends its capture
\* request to the captured order and leaves the record as it was
C6_Witness ==
    /\ Notified /\ pp = "Paypal" /\ last.decidedBefore /\ last.net = NoFail
    /\ last.before.status = "COMPLETED"
    /\ Len(last.reqs) = 2 /\ last.reqs[1] = "paypal.order.capture"
    /\ ~last.changed

\* C7: two Notify calls for the same order against the same vendor record
\* return identical results, whatever the two bodies are.
C7_BodyNotTrusted ==
    (Notified /\ prev.valid /\ last.net = NoFail /\ prev.before = last.before) =>
        (prev.ret = last.ret /\ prev.res = last.res)

\* C8: Notify called with an empty body returns normally (a result or an
\* error); it does not abort.
C8_EmptyBodyTolerated ==
    (Notified /\ last.body = EmptyBody /\ last.net = NoFail) => last.ret # "panic"

\* the position of a request in the fixed order of an adapter's Pay
PayRank(name) ==
    CASE name \in {"product.new", "authentication.login"} -> 1
      [] name \in {"price.new", "payment_intents.create"} -> 2
      [] name = "checkout.session.new" -> 3
      [] OTHER -> 1

\* the request at position net.failAt was issued and got no answer or an error envelope
RequestFailed(call) ==
    /\ call.net.failAt \in 1..Len(call.reqs)
    /\ call.net.mode \in {"transport", "rejected"}

\* C9: within one Pay call each vendor request is issued at most once, in the
\* fixed order; once a request fails no further request is issued and Pay
\* returns a nil response with a non-nil error.
C9_PayStopsAtFirstFailure ==
    last.op = "Pay" =>
        /\ \A i, j \in 1..Len(last.reqs) :
               i < j => PayRank(last.reqs[i]) < PayRank(last.reqs[j])
        /\ RequestFailed(last) =>
               (Len(last.reqs) = last.net.failAt /\ last.ret = "err" /\ last.resp = NoResp)

\* a vendor call of the call failed, or a decoding step met something it cannot decode
StepFailed(call) == call.net.failAt \in 1..Len(call.reqs)

\* C10: whenever a vendor call or a decoding step inside Pay or Notify fails,
\* the operation returns a non-nil error.
C10_NoErrorSwallowed ==
    (last.op \in {"Pay", "Notify"} /\ StepFailed(last)) => last.ret = "err"

FieldCount(str) == 1 + Cardinality({i \in 1..Len(str) : str[i] = Sep})

\* C14: parsing the join of three separator-free strings gives the three
\* strings back without error, and parsing a string whose number of fields is
\* not three gives a decoding error with three empty strings.
C14_AttachRoundTrip ==
    /\ codec.op = "attach" =>
           /\ ~codec.parsed.err
           /\ <<codec.parsed.a, codec.parsed.b, codec.parsed.c>> = codec.toks
    /\ (codec.op = "parse" /\ FieldCount(codec.str) # 3) =>
           /\ codec.parsed.err
           /\ codec.parsed.a = <<>> /\ codec.parsed.b = <<>> /\ codec.parsed.c = <<>>

\* C14 witness: three different tokens, one of them empty, joined and parsed back
C14_Witness ==
    /\ codec.op = "attach" /\ codec.toks = <<<<"a", "b">>, <<>>, <<"b">>>>
    /\ codec.str = <<"a", "b", "|", "|", "b">>
    /\ ~codec.parsed.err

\* the vendor's record is in the state for which the adapter reports Paid
Captured(p, ord) ==
    /\ ord.exists
    /\ CASE p = "Stripe"    -> ord.status = "complete" /\ ord.payStatus = "paid"
         [] p = "Airwallex" -> ord.status = "SUCCEEDED" /\ ord.payStatus \in {"", "PAID", "SETTLED"}
         [] p = "Alipay"    -> ord.status = "TRADE_SUCCESS"
         [] p = "Wechat"    -> ord.status = "SUCCESS"
         [] p = "Paypal"    -> ord.status = "COMPLETED"
         [] OTHER           -> FALSE

\* the attachment the vendor recorded for the order does not parse into three fields
BadAttach(call) == call.before.hasAttach /\ parseAttachString(call.before.attach).err

\* C15: when the attachment recorded for a settled order cannot be parsed into
\* three fields, PayPal's Notify returns an error and no result, while the
\* Notify of Stripe, Airwallex, Alipay and WeChat returns Paid with a nil error
\* and empty ProductName, ProductDisplayName and ProviderName.
C15_ParseFailureHandling ==
    (Notified /\ Answered(last) /\ Captured(pp, order) /\ BadAttach(last)) =>
        /\ pp = "Paypal" => (last.ret = "err" /\ last.res = ZeroResult)
        /\ pp \in {"Stripe", "Airwallex", "Alipay", "Wechat"} =>
               /\ last.ret = "ok"
               /\ last.res.PaymentStatus = PaymentStatePaid
               /\ last.res.ProductName = <<>>
               /\ last.res.ProductDisplayName = <<>>
               /\ last.res.ProviderName = <<>>

\* C15 witness: a paid WeChat order whose attachment has four fields
C15_Witness ==
    /\ Notified /\ pp = "Wechat" /\ Answered(last) /\ Captured(pp, order)
    /\ BadAttach(last) /\ Len(last.before.attach) > 0
    /\ last.res.PaymentStatus = PaymentStatePaid

\* C15, the PayPal side: a captured order whose attachment has four fields
C15_PaypalCase ==
    /\ Notified /\ pp = "Paypal" /\ Answered(last) /\ Captured(pp, order)
    /\ BadAttach(last) /\ last.ret = "err"

C12_AckDecidedByNilness ==
    (life.op = "GetResponseError" /\ life.prevAck.valid) =>
        IF (life.prevAck.arg = "") = (life.ack.arg = "")
        THEN life.prevAck.token = life.ack.token
        ELSE life.prevAck.token # life.ack.token

\* C12 as amended: Stripe, Airwallex, Alipay, PayPal and GC answer "success"
\* for a nil error and "fail" for every non-nil error; WeChat answers a JSON
\* envelope whose Code is SUCCESS for a nil error and FAIL otherwise and whose
\* Message is the error's text; Balance and Dummy answer the empty string
\* whatever the error.
C12_AckPerVendor ==
    life.op = "GetResponseError" =>
        /\ life.provider \in {"Stripe", "Airwallex", "Alipay", "Paypal", "Gc"} =>
               life.ack.token = IF life.ack.arg = "" THEN <<"success">> ELSE <<"fail">>
        /\ life.provider = "Wechat" =>
               /\ Len(life.ack.token) = 5
               /\ life.ack.token[2] = IF life.ack.arg = "" THEN "SUCCESS" ELSE "FAIL"
               /\ life.ack.token[4] = life.ack.arg
        /\ life.provider \in {"Balance", "Dummy"} => life.ack.token = <<>>

\* C12 witness: WeChat acknowledged two different errors with two different tokens
C12_Witness ==
    /\ life.op = "GetResponseError" /\ life.provider = "Wechat" /\ life.prevAck.valid
    /\ life.prevAck.arg = "timeout" /\ life.ack.arg = "denied"
    /\ life.prevAck.token # life.ack.token

\* the credentials a provider cannot work without
RequiredCredentials(p) == IF p = "Stripe" THEN {"SecretKey"} ELSE CredentialNames(p)

\* C16: when a required credential is the empty string, the WeChat
\* constructor returns a zero-value instance with a nil error, and every
\* other credentialed constructor (Alipay, Stripe, PayPal, Airwallex, GC)
\* returns a non-nil error and no instance.
C16_FailFastExceptWechat ==
    (/\ life.op = "new"
     /\ life.provider \in {"Alipay", "Wechat", "Stripe", "Paypal", "Airwallex", "Gc"}
     /\ \E k \in RequiredCredentials(life.provider) : life.creds[k] = "") =>
        IF life.provider = "Wechat"
        THEN life.inst = "zero" /\ life.cerr = ""
        ELSE life.inst = "nil" /\ life.cerr # ""

\* C17: on the instance the WeChat constructor returns for empty credentials,
\* Pay and Notify return an error or a result, GetInvoice returns ("", nil),
\* GetResponseError returns its token; no call aborts.
C17_ZeroInstancePredictable ==
    (life.inst = "zero" /\ life.op \in {"Pay", "Notify", "GetInvoice", "GetResponseError"}) =>
        /\ life.m.ret \in {"ok", "err"}
        /\ life.op = "GetInvoice" => life.m = NoInvoice
        /\ life.op = "GetResponseError" => life.m.token = WechatGetResponseError(life.arg)

\* the callers between the cache check and the cache write of GetToken
InRefresh == {c \in Callers : conc.pc[c] \in {"check", "login", "write"}}

\* C18: under every interleaving at most one caller is between the cache check
\* and the cache write, so at most one login request is in flight, and
\* tokenCache is read or written only by the caller holding tokenMutex.
C18_RefreshMutuallyExclusive ==
    /\ Cardinality(InRefresh) <= 1
    /\ Cardinality({c \in Callers : conc.pc[c] = "login"}) <= 1
    /\ \A c \in InRefresh : conc.holder = c
    /\ conc.access # NoCaller => conc.holder = conc.access

\* C18 witness: one caller's login is in flight while another waits for the mutex
C18_Witness ==
    \E c, w \in Callers :
        /\ c # w /\ conc.pc[c] = "login" /\ conc.pc[w] = "lock" /\ conc.holder = c

\* C19: a caller whose payment request is in flight does not hold tokenMutex.
C19_NoLockDuringPaymentCall ==
    \A c \in Callers : conc.pc[c] = "do" => conc.holder # c

\* C19 witness: one caller's payment request is in flight while another
\* caller is inside GetToken with the mutex, refreshing the expired token
C19_Witness ==
    \E c, w \in Callers :
        /\ c # w /\ conc.pc[c] = "do" /\ conc.pc[w] = "login" /\ conc.holder = w

\* C20: when Pay calls for different orders run concurrently on one provider,
\* every Alipay page-pay request carries the ReturnUrl and NotifyUrl of the
\* PayReq that triggered it, under every interleaving.
C20_RequestFromOwnPayReq ==
    \A c \in Callers :
        ali.request[c].sent =>
            /\ ali.request[c].out_trade_no = PayReqOf(c).PaymentName
            /\ ali.request[c].return_url = PayReqOf(c).ReturnUrl
            /\ ali.request[c].notify_url = PayReqOf(c).NotifyUrl

\* C21: every vendor request of a Pay or Notify made through a Stripe
\* provider instance is authenticated with the SecretKey that instance was
\* constructed with, whatever other instances were constructed before the call.
C21_OwnSecretKey ==
    life.call.via # 0 =>
        \A k \in 1..Len(life.call.auth) : life.call.auth[k] = life.inst[life.call.via]

\* C22: for every adapter, when the order was initiated by Pay with
\* PayReq.PaymentName = n and a later Notify for that order returns status
\* Paid, the NotifyResult's PaymentName is n.  (Every request in Reqs carries
\* the same PaymentName, that of ReqBase.)
C22_PaymentNameCorrelates ==
    (Notified /\ last.ret = "ok" /\ last.res.PaymentStatus = PaymentStatePaid
       /\ last.before.issued)
        => last.res.PaymentName = ReqBase.PaymentName

\* C23: for Alipay, WeChat, Stripe, PayPal and Airwallex, when Pay packed the
\* separator-free ProductName, ProductDisplayName and ProviderName of its
\* request into the attachment and the vendor kept it unchanged, a Paid
\* NotifyResult for that order carries the same three fields.
C23_ProductEcho ==
    (Notified /\ last.ret = "ok" /\ last.res.PaymentStatus = PaymentStatePaid
       /\ pp \in {"Alipay", "Wechat", "Stripe", "Paypal", "Airwallex"}
       /\ last.before.issued /\ last.before.hasAttach /\ ~BadAttach(last))
        => /\ last.res.ProductName = ReqBase.ProductName
           /\ last.res.ProductDisplayName = ReqBase.ProductDisplayName
           /\ last.res.ProviderName = ReqBase.ProviderName

\* C24: when the Stripe vendor reports session status "complete" and payment
\* status "paid" and answers both queries, Notify returns status Paid with a
\* nil error, Price equal to the intent's minor-unit amount divided by 100
\* (the price of the request: 9999 gives 99.99), Currency equal to the
\* intent's currency, PaymentName equal to the session's client reference id
\* (the request's PaymentName) and OrderId equal to the queried order id.
C24_StripeSettled ==
    (Notified /\ pp = "Stripe" /\ Answered(last)
       /\ last.before.status = "complete" /\ last.before.payStatus = "paid")
        => /\ last.ret = "ok" /\ last.err = ""
           /\ last.res.PaymentStatus = PaymentStatePaid
           /\ last.res.Price * 100 = last.before.amount * 1000
           /\ last.before.amount = 9999 => last.res.Price = ReqBase.Price
           /\ last.res.Currency = last.before.currency
           /\ last.res.PaymentName = last.before.ref
           /\ last.res.PaymentName = ReqBase.PaymentName
           /\ last.res.OrderId = StripeSessionId

\* C24 witness: a Notify on the settled session of a request made with price
\* 99.99 returned Paid with price 99.99
C24_Witness ==
    /\ Notified /\ pp = "Stripe" /\ Answered(last)
    /\ last.before.status = "complete" /\ last.before.payStatus = "paid"
    /\ last.before.amount = 9999
    /\ last.res.PaymentStatus = PaymentStatePaid /\ last.res.Price = 99990
    /\ last.res.PaymentName = <<"n">>

\* the issue with which PayPal answered the capture request of the call
\* ("" when it captured the order, "transport" when no answer arrived)
CaptureIssue(before, net) ==
    IF net.failAt = 1 /\ net.mode = "transport" THEN "transport"
    ELSE OrderCapture(before, PaypalOrderId, net).issue

\* C25: every PayPal Notify first issues a capture request and only afterwards,
\* if at all, one order-detail query.  A capture rejected with
\* ORDER_NOT_APPROVED gives status Canceled with the vendor's description as
\* message and no detail query; one rejected with ORDER_ALREADY_CAPTURED goes on
\* to the detail query and, the query answered, returns what the call that
\* captured the order returned; any other rejection gives an error and no result.
C25_PaypalProtocolOrder ==
    (Notified /\ pp = "Paypal") =>
        /\ last.reqs \in {<<"paypal.order.capture">>,
                          <<"paypal.order.capture", "paypal.order.detail">>}
        /\ CaptureIssue(last.before, last.net) = "ORDER_NOT_APPROVED" =>
               /\ last.ret = "ok" /\ last.res.PaymentStatus = PaymentStateCanceled
               /\ last.res.NotifyMessage = <<"description of ", "ORDER_NOT_APPROVED">>
               /\ last.reqs = <<"paypal.order.capture">>
        /\ CaptureIssue(last.before, last.net) \in {"", "ORDER_ALREADY_CAPTURED"} =>
               last.reqs = <<"paypal.order.capture", "paypal.order.detail">>
        /\ (CaptureIssue(last.before, last.net) = "ORDER_ALREADY_CAPTURED" /\ last.net = NoFail
              /\ prev.valid /\ CaptureIssue(prev.before, NoFail) = "") =>
               (last.ret = prev.ret /\ last.res = prev.res)
        /\ CaptureIssue(last.before, last.net) \notin {"", "ORDER_ALREADY_CAPTURED", "ORDER_NOT_APPROVED"} =>
               /\ last.ret = "err" /\ last.err # "" /\ last.res = ZeroResult
               /\ last.reqs = <<"paypal.order.capture">>

\* C25 witness: a Notify on an order the payer has not approved returned
\* Canceled after the capture request alone
C25_Witness ==
    /\ Notified /\ pp = "Paypal" /\ last.net = NoFail
    /\ last.before.exists /\ last.before.status = "CREATED"
    /\ CaptureIssue(last.before, last.net) = "ORDER_NOT_APPROVED"
    /\ last.res.PaymentStatus = PaymentStateCanceled
    /\ last.reqs = <<"paypal.order.capture">>

\* C26: when all N callers called GetToken concurrently, each while the cache
\* was empty or expired and before any of them had issued a login request,
\* and each has returned a token that has not expired by now, exactly one
\* login request was issued since they called and all hold the same token.
C26_SingleRefresh ==
    (/\ \A c \in Callers :
          /\ conc.pc[c] = "do" /\ conc.call[c].stale
          /\ conc.now < conc.call[c].got.parsedExpiresAt
     /\ \A c, d \in Callers : conc.call[c].base = conc.call[d].base)
        => /\ \A c, d \in Callers : conc.call[c].got.Token = conc.call[d].got.Token
           /\ \A c \in Callers : conc.logins = conc.call[c].base + 1

\* C26 witness: all callers called while the cached token had expired; one
\* of them logged in and all hold the new token
C26_Witness ==
    /\ \A c \in Callers :
          /\ conc.pc[c] = "do" /\ conc.call[c].stale /\ conc.call[c].base = 1
          /\ conc.now < conc.call[c].got.parsedExpiresAt
          /\ conc.call[c].got.Token = 2
    /\ \E c, d \in Callers :
          /\ c # d /\ conc.call[c].seen.set /\ conc.call[c].seen.Token = 1
          /\ conc.call[d].seen.Token = 2
    /\ conc.logins = 2

\* C27: when the login request gets no answer, an answer that cannot be
\* decoded or an answer with an empty token, GetToken returns an error and no
\* token, with tokenCache as the call found it; on return tokenMutex is
\* released; and every caller waiting for tokenMutex eventually acquires it.
C27_FailedRefreshHarmless ==
    /\ [](\A c \in Callers :
            (conc.pc[c] = "unlock"
               /\ conc.call[c].answer \in {"transport", "undecodable", "empty"}) =>
                (/\ conc.failed[c] /\ conc.call[c].got = NoTokenInfo
                 /\ conc.cache = conc.call[c].seen))
    /\ [][\A c \in Callers :
            (conc.pc[c] = "unlock" /\ conc.failed[c] /\ conc'.pc[c] # "unlock") =>
                (conc'.pc[c] = "idle" /\ conc'.holder = NoCaller
                 /\ conc'.cache = conc.cache)]_vars
    /\ \A c \in Callers : (conc.pc[c] = "lock") ~> (conc.holder = c)

\* C27 witness: one caller's refresh failed and it returned the error, and
\* another caller, who waited for the mutex meanwhile, now holds it
C27_Witness ==
    \E c, w \in Callers :
        /\ c # w /\ conc.pc[c] = "idle" /\ conc.failed[c]
        /\ conc.pc[w] = "check" /\ conc.holder = w
        /\ conc.logins = 1 /\ conc.cache = NoTokenInfo

\* C28: GetToken returns the cached token without a login request only when
\* there is a cached token and the current time is strictly before its parsed
\* expiry, which is then not the zero time; otherwise (no token, expiry
\* reached or passed, or zero expiry) it issues a login request.
C28_NoExpiredTokenServed ==
    [][\A c \in Callers :
         (conc.pc[c] = "check" /\ conc'.pc[c] # "check") =>
             \/ /\ conc'.pc[c] = "unlock" /\ conc'.logins = conc.logins
                /\ conc'.call[c].got = conc.cache
                /\ conc.cache.set /\ conc.now < conc.cache.parsedExpiresAt
                /\ conc.cache.parsedExpiresAt # 0
             \/ /\ conc'.pc[c] = "login" /\ conc'.logins = conc.logins + 1
                /\ ~(conc.cache.set /\ conc.now < conc.cache.parsedExpiresAt)]_vars

\* C28 witness: a caller found a cached token at the very instant of its
\* expiry and has issued a login request
C28_Witness ==
    \E c \in Callers :
        /\ conc.pc[c] = "login" /\ conc.call[c].seen.set
        /\ conc.call[c].seen.parsedExpiresAt = conc.now
        /\ conc.logins = conc.call[c].base + 1

\* C29: a WeChat Pay call issues at most one order-creation request: JSAPI
\* when PaymentEnv is "WechatBrowser" and Native otherwise; with
\* "WechatBrowser" and an empty PayerId it returns an error without any
\* request; a successful JSAPI call returns an empty PayUrl with the signed
\* parameters in AttachInfo, a successful Native call returns the code URL as
\* PayUrl, and both return OrderId = PaymentName.
C29_WechatOneCreation ==
    (last.op = "Pay" /\ pp = "Wechat") =>
        LET browser == last.req.PaymentEnv = "WechatBrowser"
        IN  /\ Len(last.reqs) <= 1
            /\ (browser /\ last.req.PayerId = <<>>) =>
                   (last.ret = "err" /\ last.err # "" /\ last.reqs = <<>>)
            /\ (browser /\ last.req.PayerId # <<>>) =>
                   last.reqs = <<"wechat.transaction.jsapi">>
            /\ ~browser => last.reqs = <<"wechat.transaction.native">>
            /\ (last.ret = "ok" /\ browser) =>
                   /\ last.resp.PayUrl = ""
                   /\ last.resp.AttachInfo = {"appId", "timeStamp", "nonceStr", "package",
                                              "signType", "paySign"}
            /\ (last.ret = "ok" /\ ~browser) =>
                   (last.resp.PayUrl = "wechat-code-url" /\ last.resp.AttachInfo = {})
            /\ last.ret = "ok" => last.resp.OrderId = last.req.PaymentName

\* C29 witness: a Pay from the WeChat browser created the order through
\* JSAPI and returned the signed parameters
C29_Witness ==
    /\ last.op = "Pay" /\ pp = "Wechat" /\ last.ret = "ok"
    /\ last.req.PaymentEnv = "WechatBrowser" /\ last.req.PayerId # <<>>
    /\ last.reqs = <<"wechat.transaction.jsapi">>
    /\ last.resp.PayUrl = "" /\ "paySign" \in last.resp.AttachInfo
    /\ last.resp.OrderId = <<"n">>

\* C30: BalancePaymentProvider.Pay returns normally for every PayReq: with a
\* PayerId of the form owner/name it returns PayUrl = ReturnUrl and
\* OrderId = owner/PaymentName with a nil error, and with a PayerId that does
\* not split into exactly two parts it returns an error.
C30_BalancePayReturns ==
    (last.op = "Pay" /\ pp = "Balance") =>
        LET tokens == Split(last.req.PayerId, "/")
        IN  /\ last.ret # "panic"
            /\ Len(tokens) = 2 =>
                   /\ last.ret = "ok" /\ last.err = ""
                   /\ last.resp.PayUrl = last.req.ReturnUrl
                   /\ last.resp.OrderId = tokens[1] \o <<"/">> \o last.req.PaymentName
            /\ Len(tokens) # 2 => last.ret = "err"

====
